---- MODULE Spec2Model ----
(***************************************************************************)
(* Triangular fractal growth.  The repository holds three programs that    *)
(* are modelled here, and a run is a run of one of them (the variable      *)
(* app):                                                                   *)
(*   "main"  main.py: controllers.py TriGrowthController driving           *)
(*           canvas_manager.py CanvasManager and state.py LayerState;      *)
(*   "GUI"   GUI.py: TriGrowthApp, the 2D prototype, which keeps its       *)
(*           history in its own attributes and records no 3D mesh;         *)
(*   "gui"   gui.py: TriGrowthGUI, a LayerState and a mesh whose           *)
(*           generations lie HEIGHT_STEP apart.                            *)
(* They keep the same history, so they share the variables: rows, tags     *)
(* (GUI.py layer_tags), redo, seed_locked (GUI.py lock_seed), left_branch, *)
(* right_branch, drag_i and side_var (GUI.py and gui.py side).  The        *)
(* handlers of CanvasManager are cm_..., those of TriGrowthApp are App_... *)
(* and those of TriGrowthGUI are TriGrowthGUI_...; the callbacks are the   *)
(* actions on_click, .. of main.py, GUI_on_click, .. of GUI.py and         *)
(* gui_on_click, .. of gui.py.  Spec runs main.py or GUI.py, SpecGui runs  *)
(* gui.py.                                                                 *)
(*                                                                         *)
(* Numbers.  third_vertex rotates by +-60 degrees, so a 2D point is kept   *)
(* exactly as a pair <<a, b>> standing for a + b*w, w = (1/2, sqrt(3)/2):  *)
(* x = a + b/2, y = b*sqrt(3)/2.  Pointer events arrive on the pixel row   *)
(* y = 0, i.e. as <<x, 0>> with x an integer pixel.  A height (z) is a     *)
(* finite sum of k*sqrt(r), r squarefree, kept as the set of its non-zero  *)
(* terms <<r, k>>; square roots of distinct squarefree numbers are         *)
(* linearly independent over the rationals, so two heights are equal as    *)
(* reals exactly when the two sets are equal.  Arithmetic is exact: the    *)
(* rounding of binary floating point is not modelled.  The one place where *)
(* a float is compared is the filter of undo_layer (apex z in zvals); it   *)
(* decides which faces stay in triangles_3d and nothing else.              *)
(*                                                                         *)
(* Python values.  None is the empty tuple and a present value x is <<x>>  *)
(* (left_branch, right_branch, left3d, right3d); list indices are 1-based, *)
(* and _drag_i = None is 0.  The tag f'ly{idx}' is <<"ly", idx>>.          *)
(* An exception that leaves a Tk callback ends the callback where it was   *)
(* raised: what was assigned before stays assigned.  Every handler is an   *)
(* operator from the state (a record) to the state after it; the field     *)
(* raised of the result tells whether the callback ended by an exception.  *)
(* A long handler is a chain of operators, one per stage of its code, each *)
(* handing the value it computed to the next stage.                        *)
(*                                                                         *)
(* The canvas.  Of the items on the Tk canvas the model keeps those that    *)
(* carry a layer tag, as the set of the triples <<layer tag, kind, state>> *)
(* that occur: kind is the second tag of the item ('dot', 'row' or 'tri'), *)
(* state is 'normal' or 'hidden'.  Every itemconfigure acts on all the     *)
(* items of one tag, so the set is exact for which combinations are on the *)
(* canvas.  The seed items and the hull lines carry no layer tag and are   *)
(* left out.  update_hull of CanvasManager and of TriGrowthGUI reads the   *)
(* lines tagged 'tri', hidden or not; tri_items keeps them with their      *)
(* end points, in the order they were created (GUI.py builds its hull from *)
(* the points of rows, and its lines are not kept).  What update_hull      *)
(* makes of a list of lines is modelled on its own (tri_lines, hull), the  *)
(* lines being put on the canvas by create_line and create_edge.           *)
(*                                                                         *)
(* The geometry functions and the OBJ export are driven by actions of      *)
(* their own: call_convex_hull and call_third_vertex apply the function to *)
(* arguments from a bounded grid, export_dialog is the Export button of    *)
(* main.py.                                                                *)
(*                                                                         *)
(* Pointer protocol.  Button-1 press, motion and release reach the canvas  *)
(* in that order; a press that hits a seed dot starts a drag (_drag_i) and *)
(* no second press arrives before the release that ends it.  The buttons   *)
(* and the mode selector can be operated from the keyboard at any time,    *)
(* also while a drag is in progress.                                       *)
(***************************************************************************)
EXTENDS Integers, Sequences, FiniteSets

\* ---------------------------------------------------------------- bounds
MaxSteps == 8   \* callbacks in one run of the application
MaxCoord == 2   \* the pointer is at pixel 0, 10, .., 10*MaxCoord of the row y = 0
MaxLines == 6   \* 'tri' lines on the canvas when update_hull walks them
MaxPoints == 4  \* points in the list given to convex_hull
MaxGrid == 2    \* the arguments of the geometry functions have coordinates up to this

\* ------------------------------------------------------- program constants
DOT_R == 3       \* drawing.py
TAN45 == 1       \* canvas_manager.py
App_DOT_R == 3   \* GUI.py TriGrowthApp.DOT_R
HEIGHT_STEP == 1 \* gui.py HEIGHT_STEP = 1.0

VARIABLES
    app,           \* the program that runs: "main", "GUI" or "gui"
    rows,          \* LayerState.rows
    tags,          \* LayerState.tags
    redo,          \* LayerState.redo, top of the stack last
    undone,        \* LayerState.undone
    left_branch,   \* LayerState.left_branch
    right_branch,  \* LayerState.right_branch
    left3d,        \* LayerState.left3d  (attribute created by add_layer)
    right3d,       \* LayerState.right3d
    seed_locked,   \* LayerState.seed_locked
    layers_3d,     \* CanvasManager.layers_3d, TriGrowthGUI.layers_3d
    triangles_3d,  \* CanvasManager.triangles_3d, TriGrowthGUI.triangles_3d
    drag_i,        \* CanvasManager._drag_i
    side_var,      \* TriGrowthController.side_var
    canvas,        \* the layer items of the canvas cv: <<layer tag, kind, state>>
    vis,           \* TriGrowthController.v_dots, v_rows, v_tris, v_hull
    tri_items,     \* the 'tri' lines of the canvas cv: <<layer tag, start, end>>
    exported,      \* the last OBJ export: whether it raised, and the file written
    tri_lines,     \* the hull walk: coords of the 'tri' lines, in canvas order
    hull,          \* the hull walk: the loops update_hull drew last
    ch_call,       \* geometry.convex_hull: the last call, its argument and its result
    tv_call,       \* geometry.third_vertex: the last call, its arguments and its result
    steps,         \* history: callbacks run so far
    phase          \* history: how the state was reached since the last clear
                   \*   "seed"   only pointer events and mode selections
                   \*   "grows"  a seed, then successful grows, the last callback one
                   \*   "picked" the same, the mode selected again after the last grow
                   \*   "other"  anything else

vars == <<app, rows, tags, redo, undone, left_branch, right_branch, left3d, right3d,
          seed_locked, layers_3d, triangles_3d, drag_i, side_var, canvas, vis,
          tri_items, exported, tri_lines, hull, ch_call, tv_call, steps, phase>>

\* ---------------------------------------------------------------- helpers
None == <<>>
Some(x) == <<x>>
Last(s) == s[Len(s)]
Front(s) == SubSeq(s, 1, Len(s) - 1)
Min(a, b) == IF a <= b THEN a ELSE b
Sides == {"LEFT", "RIGHT", "BOTH"}
Positions == {10 * k : k \in 0..MaxCoord}
Kinds == {"dot", "row", "tri", "hull"}
Tag(idx) == <<"ly", idx>>

\* ---------------------------------------------------------------- numbers
\* n = s*s*r with r squarefree, found by pulling square factors out of n
RECURSIVE Pull(_, _, _)
Pull(n, f, s) ==
    IF f * f > n THEN <<s, n>>
    ELSE IF n % (f * f) = 0 THEN Pull(n \div (f * f), f, s * f)
    ELSE Pull(n, f + 1, s)

\* math.hypot(dx, dy) for the step <<a, b>>: sqrt(a^2 + a*b + b^2) = s*sqrt(r)
hypot(d) ==
    LET n == d[1] * d[1] + d[1] * d[2] + d[2] * d[2]
    IN  IF n = 0 THEN <<0, 1>> ELSE Pull(n, 2, 1)

\* the height h plus k*sqrt(r)
HAdd(h, r, k) ==
    LET old == {t \in h : t[1] = r}
        c   == IF old = {} THEN 0 ELSE (CHOOSE t \in old : TRUE)[2]
    IN  IF c + k = 0 THEN h \ old ELSE (h \ old) \cup {<<r, c + k>>}

\* ---------------------------------------------------------------- geometry
\* mutant: third_vertex that turns to the left whatever the sign
Mut_third_vertex_left_only(p, q, side) ==
    LET vx == q[1] - p[1]
        vy == q[2] - p[2]
    IN  <<p[1] - vy, p[2] + vx + vy>>

third_vertex(p, q, side) ==
    LET vx == q[1] - p[1]
        vy == q[2] - p[2]
        r  == IF side = 1 THEN <<-vy, vx + vy>> ELSE <<vx + vy, -vx>>
    IN  <<p[1] + r[1], p[2] + r[2]>>

\* ---------------------------------------------------------------- state
State ==
    [rows |-> rows, tags |-> tags, redo |-> redo, undone |-> undone,
     left_branch |-> left_branch, right_branch |-> right_branch,
     left3d |-> left3d, right3d |-> right3d, seed_locked |-> seed_locked,
     layers_3d |-> layers_3d, triangles_3d |-> triangles_3d,
     drag_i |-> drag_i, raised |-> FALSE]

Becomes(t) ==
    /\ rows' = t.rows
    /\ tags' = t.tags
    /\ redo' = t.redo
    /\ undone' = t.undone
    /\ left_branch' = t.left_branch
    /\ right_branch' = t.right_branch
    /\ left3d' = t.left3d
    /\ right3d' = t.right3d
    /\ seed_locked' = t.seed_locked
    /\ layers_3d' = t.layers_3d
    /\ triangles_3d' = t.triangles_3d
    /\ drag_i' = t.drag_i

LayerState_init ==
    [rows |-> <<>>, tags |-> <<>>, redo |-> <<>>, undone |-> {},
     left_branch |-> None, right_branch |-> None,
     left3d |-> None, right3d |-> None, seed_locked |-> FALSE]

Init ==
    /\ app \in {"main", "GUI", "gui"}
    /\ rows = LayerState_init.rows
    /\ tags = LayerState_init.tags
    /\ redo = LayerState_init.redo
    /\ undone = LayerState_init.undone
    /\ left_branch = LayerState_init.left_branch
    /\ right_branch = LayerState_init.right_branch
    /\ left3d = LayerState_init.left3d
    /\ right3d = LayerState_init.right3d
    /\ seed_locked = LayerState_init.seed_locked
    /\ layers_3d = <<>>
    /\ triangles_3d = <<>>
    /\ drag_i = 0
    /\ side_var = "LEFT"
    /\ canvas = {}
    /\ vis = [k \in Kinds |-> TRUE]
    /\ tri_items = <<>>
    /\ exported = [raised |-> FALSE, file |-> None]
    /\ tri_lines = <<>>
    /\ hull = <<>>
    /\ ch_call = [points |-> <<>>, ret |-> <<>>]
    /\ tv_call = [p |-> <<0, 0>>, q |-> <<0, 0>>, side |-> 1, ret |-> <<0, 0>>]
    /\ steps = 0
    /\ phase = "seed"

\* ------------------------------------------------------------- LayerState
\* mutant: push that forgets to clear the redo stack
Mut_push_keeps_redo(s, row, tag) ==
    [s EXCEPT !.rows = Append(s.rows, row),
              !.tags = Append(s.tags, tag)]

LayerState_push(s, row, tag) ==
    [s EXCEPT !.rows = Append(s.rows, row),
              !.tags = Append(s.tags, tag),
              !.redo = <<>>]

\* mutant: pop that removes the row and leaves its tag in tags
Mut_pop_keeps_tag(s) ==
    IF Len(s.rows) <= 1 THEN <<s, None>>
    ELSE LET row == Last(s.rows)
             tag == Last(s.tags)
             t   == [s EXCEPT !.rows = Front(s.rows),
                              !.redo = Append(s.redo, <<row, tag>>)]
         IN  <<IF Len(t.rows) = 1 THEN [t EXCEPT !.seed_locked = FALSE] ELSE t,
               Some(tag)>>

\* mutant: pop guarded by "no row at all", so that it pops the seed row
\* (tags.pop() then raises on the empty list, after rows.pop())
Mut_pop_below_seed(s) ==
    IF Len(s.rows) = 0 THEN <<s, None>>
    ELSE IF s.tags = <<>> THEN <<[s EXCEPT !.rows = Front(s.rows)], None>>
    ELSE LET row == Last(s.rows)
             tag == Last(s.tags)
             t   == [s EXCEPT !.rows = Front(s.rows),
                              !.tags = Front(s.tags),
                              !.redo = Append(s.redo, <<row, tag>>)]
         IN  <<IF Len(t.rows) = 1 THEN [t EXCEPT !.seed_locked = FALSE] ELSE t,
               Some(tag)>>

\* mutant: pop that puts the popped generation under the redo stack
Mut_pop_redo_bottom(s) ==
    IF Len(s.rows) <= 1 THEN <<s, None>>
    ELSE LET row == Last(s.rows)
             tag == Last(s.tags)
             t   == [s EXCEPT !.rows = Front(s.rows),
                              !.tags = Front(s.tags),
                              !.redo = <<<<row, tag>>>> \o s.redo]
         IN  <<IF Len(t.rows) = 1 THEN [t EXCEPT !.seed_locked = FALSE] ELSE t,
               Some(tag)>>

\* pop and redo_layer return <<state, tag>>; the tag is None when nothing is done
LayerState_pop(s) ==
    IF Len(s.rows) <= 1 THEN <<s, None>>
    ELSE LET row == Last(s.rows)
             tag == Last(s.tags)
             t   == [s EXCEPT !.rows = Front(s.rows),
                              !.tags = Front(s.tags),
                              !.redo = Append(s.redo, <<row, tag>>)]
         IN  <<IF Len(t.rows) = 1 THEN [t EXCEPT !.seed_locked = FALSE] ELSE t,
               Some(tag)>>

\* mutant: redo_layer that does not lock the seed again
Mut_redo_layer_no_lock(s) ==
    IF s.redo = <<>> THEN <<s, None>>
    ELSE LET e == Last(s.redo)
         IN  <<[s EXCEPT !.redo = Front(s.redo),
                         !.rows = Append(s.rows, e[1]),
                         !.tags = Append(s.tags, e[2])],
               Some(e[2])>>

\* mutant: redo_layer that locks the seed before it looks at the redo stack
Mut_redo_layer_locks_first(s) ==
    IF s.redo = <<>> THEN <<[s EXCEPT !.seed_locked = TRUE], None>>
    ELSE LET e == Last(s.redo)
         IN  <<[s EXCEPT !.redo = Front(s.redo),
                         !.rows = Append(s.rows, e[1]),
                         !.tags = Append(s.tags, e[2]),
                         !.seed_locked = TRUE],
               Some(e[2])>>

LayerState_redo_layer(s) ==
    IF s.redo = <<>> THEN <<s, None>>
    ELSE LET e == Last(s.redo)
         IN  <<[s EXCEPT !.redo = Front(s.redo),
                         !.rows = Append(s.rows, e[1]),
                         !.tags = Append(s.tags, e[2]),
                         !.seed_locked = TRUE],
               Some(e[2])>>

\* ---------------------------------------------------------- CanvasManager
\* the hit test of on_click: the seed dots within 3*DOT_R pixels of (x, 0);
\* four times the squared distance to a + b*w is (2x - 2a - b)^2 + 3b^2
Hits(row, x) ==
    {i \in 1..Len(row) :
        (2 * x - 2 * row[i][1] - row[i][2]) * (2 * x - 2 * row[i][1] - row[i][2])
          + 3 * row[i][2] * row[i][2] <= 4 * (DOT_R * 3) * (DOT_R * 3)}

cm_on_click(s0, x) ==
    LET s == [s0 EXCEPT !.raised = FALSE]
    IN  IF s.seed_locked THEN s
        ELSE LET r1   == IF s.rows = <<>> THEN <<<<>>>> ELSE s.rows
                 hits == Hits(r1[1], x)
             IN  IF hits # {}
                 THEN [s EXCEPT !.rows = r1,
                                !.drag_i = CHOOSE i \in hits : \A j \in hits : i <= j]
                 ELSE [s EXCEPT !.rows = [r1 EXCEPT ![1] = Append(@, <<x, 0>>)]]

cm_on_drag(s0, x) ==
    LET s == [s0 EXCEPT !.raised = FALSE]
    IN  IF s.drag_i = 0 THEN s
        ELSE IF s.rows = <<>> \/ s.drag_i > Len(s.rows[1])
             THEN [s EXCEPT !.raised = TRUE]          \* IndexError
             ELSE [s EXCEPT !.rows[1][s.drag_i] = <<x, 0>>]

cm_on_release(s0) ==
    [s0 EXCEPT !.drag_i = 0, !.raised = FALSE]

\* _make_next, one loop iteration: the child c3d = (c2d.x, c2d.y, c_z) built on
\* the pair p2d, q2d with the 3D parent p3d
c_z(p3d, L, side) ==
    IF side = 1
    THEN HAdd(p3d[3], L[2], -(L[1] * TAN45))
    ELSE HAdd(p3d[3], L[2], L[1] * TAN45)

c3d_of(c2d, p2d, p3d, side) ==
    <<c2d[1], c2d[2],
      c_z(p3d, hypot(<<c2d[1] - p2d[1], c2d[2] - p2d[2]>>), side)>>

\* _make_next after k iterations of its loop: the children, the faces appended
\* for them, and whether the loop ran to its end
make_next_result(parent3d, children3d, ok) ==
    [children2d |-> [i \in 1..Len(children3d) |->
                        <<children3d[i][1], children3d[i][2]>>],
     children3d |-> children3d,
     faces      |-> [i \in 1..Len(children3d) |->
                        <<parent3d[i], parent3d[i + 1], children3d[i]>>],
     ok         |-> ok]

make_next_loop(parent2d, parent3d, side, k) ==
    [i \in 1..k |->
        c3d_of(third_vertex(parent2d[i], parent2d[i + 1], side),
               parent2d[i], parent3d[i], side)]

\* _make_next: the loop wants len(parent2d) - 1 iterations and can do
\* len(parent3d) - 1 of them before parent3d[i+1] raises IndexError
Pairs(row) == IF row = <<>> THEN 0 ELSE Len(row) - 1

make_next(parent2d, parent3d, side) ==
    make_next_result(parent3d,
                     make_next_loop(parent2d, parent3d, side,
                                    Min(Pairs(parent2d), Pairs(parent3d))),
                     Pairs(parent2d) <= Pairs(parent3d))

\* the mode branch shared by add_layer (lines 161-193) and redo_layer
\* (lines 314-342): the state after it, the new rows, and whether it finished.
\* What _make_next appended to triangles_3d stays when it raises.
Raised(s) ==
    [st |-> [s EXCEPT !.raised = TRUE], ok |-> FALSE, new2d |-> <<>>, new3d |-> <<>>]

with_faces(s, n) == [s EXCEPT !.triangles_3d = @ \o n.faces]

both_start(s, parent2d, parent3d) ==
    IF s.left_branch = None
    THEN [s EXCEPT !.left_branch = Some(parent2d),
                   !.right_branch = Some(parent2d),
                   !.left3d = Some(parent3d),
                   !.right3d = Some(parent3d)]
    ELSE s

\* mutant: BOTH grow that pushes the left children only
Mut_both_done_left_only(s, l, r) ==
    IF ~r.ok THEN Raised(with_faces(s, r))
    ELSE [st |-> [with_faces(s, r)
                    EXCEPT !.left_branch = Some(l.children2d),
                           !.right_branch = Some(r.children2d),
                           !.left3d = Some(l.children3d),
                           !.right3d = Some(r.children3d)],
          ok |-> TRUE,
          new2d |-> l.children2d,
          new3d |-> l.children3d]

both_done(s, l, r) ==
    IF ~r.ok THEN Raised(with_faces(s, r))
    ELSE [st |-> [with_faces(s, r)
                    EXCEPT !.left_branch = Some(l.children2d),
                           !.right_branch = Some(r.children2d),
                           !.left3d = Some(l.children3d),
                           !.right3d = Some(r.children3d)],
          ok |-> TRUE,
          new2d |-> l.children2d \o r.children2d,
          new3d |-> l.children3d \o r.children3d]

both_right(s, l) ==
    IF ~l.ok THEN Raised(with_faces(s, l))
    ELSE both_done(with_faces(s, l), l,
                   make_next(s.right_branch[1], s.right3d[1], -1))

both_left(s) ==
    both_right(s, make_next(s.left_branch[1], s.left3d[1], 1))

\* mutant: single-direction grow that resets the left snapshot only
Mut_single_done_keeps_right(s, n) ==
    IF ~n.ok THEN Raised(with_faces(s, n))
    ELSE [st |-> [with_faces(s, n)
                    EXCEPT !.left_branch = None, !.left3d = None],
          ok |-> TRUE,
          new2d |-> n.children2d,
          new3d |-> n.children3d]

single_done(s, n) ==
    IF ~n.ok THEN Raised(with_faces(s, n))
    ELSE [st |-> [with_faces(s, n)
                    EXCEPT !.left_branch = None, !.right_branch = None,
                           !.left3d = None, !.right3d = None],
          ok |-> TRUE,
          new2d |-> n.children2d,
          new3d |-> n.children3d]

single(s, parent2d, parent3d, sign) ==
    single_done(s, make_next(parent2d, parent3d, sign))

build_layer(s, side, parent2d, parent3d) ==
    IF side = "BOTH"
    THEN both_left(both_start(s, parent2d, parent3d))
    ELSE single(s, parent2d, parent3d, IF side = "LEFT" THEN 1 ELSE -1)

\* add_layer, lines 153-156: the 3D seed row, made when layers_3d is empty
seed3d(s) ==
    IF s.layers_3d = <<>>
    THEN [s EXCEPT !.layers_3d =
             <<[i \in 1..Len(s.rows[1]) |-> <<s.rows[1][i][1], s.rows[1][i][2], {}>>]>>]
    ELSE s

\* add_layer, lines 196-197: state.push and layers_3d.append
add_layer_push(b, tag) ==
    IF ~b.ok THEN b.st
    ELSE [LayerState_push(b.st, b.new2d, tag) EXCEPT !.layers_3d = Append(@, b.new3d)]

add_layer_build(s, side, tag) ==
    add_layer_push(build_layer(s, side, Last(s.rows), Last(s.layers_3d)), tag)

cm_add_layer(s0, side) ==
    IF s0.rows = <<>> \/ Len(Last(s0.rows)) < 2
    THEN [s0 EXCEPT !.raised = FALSE]
    ELSE add_layer_build(seed3d([s0 EXCEPT !.raised = FALSE, !.seed_locked = TRUE]),
                         side, Tag(Len(s0.tags)))

\* undo_layer, lines 281-287: pop the 3D row and drop the faces whose apex z
\* is a z of that row
zvals(popped3d) == {popped3d[i][3] : i \in 1..Len(popped3d)}

drop_faces(triangles, zs) ==
    LET Keep(tri) == tri[3][3] \notin zs
    IN  SelectSeq(triangles, Keep)

undo_3d(s) ==
    IF s.layers_3d = <<>> THEN s
    ELSE [s EXCEPT !.layers_3d = Front(@),
                   !.triangles_3d = drop_faces(@, zvals(Last(s.layers_3d)))]

undo_popped(p) ==
    IF p[2] = None THEN p[1]
    ELSE undo_3d([p[1] EXCEPT !.undone = @ \cup {p[2][1]}])

cm_undo_layer(s0) ==
    undo_popped(LayerState_pop([s0 EXCEPT !.raised = FALSE]))

\* redo_layer, line 344: layers_3d.append
redo_append(b) ==
    IF ~b.ok THEN b.st
    ELSE [b.st EXCEPT !.layers_3d = Append(@, b.new3d)]

\* redo_layer, lines 310-312: rows[-2] and layers_3d[-1] (IndexError)
redo_build(s, side) ==
    IF Len(s.rows) < 2 \/ s.layers_3d = <<>>
    THEN [s EXCEPT !.raised = TRUE]
    ELSE redo_append(build_layer(s, side, s.rows[Len(s.rows) - 1],
                                 Last(s.layers_3d)))

redo_popped(p, side) ==
    IF p[2] = None THEN p[1]
    ELSE redo_build([p[1] EXCEPT !.undone = @ \ {p[2][1]}], side)

cm_redo_layer(s0, side) ==
    redo_popped(LayerState_redo_layer([s0 EXCEPT !.raised = FALSE]), side)

RECURSIVE cm_auto_run_loop(_, _)
auto_run_step(t, side) ==
    IF t.raised THEN t ELSE cm_auto_run_loop(t, side)

cm_auto_run_loop(s, side) ==
    IF s.rows # <<>> /\ Len(Last(s.rows)) > 2
    THEN auto_run_step(cm_add_layer(s, side), side)
    ELSE s

cm_auto_run(s0, side) ==
    IF side = "BOTH"
    THEN [s0 EXCEPT !.raised = FALSE]
    ELSE cm_auto_run_loop([s0 EXCEPT !.raised = FALSE], side)

\* mutant: clear that keeps the redo buffer
Mut_cm_clear_keeps_redo(s0) ==
    [rows |-> LayerState_init.rows, tags |-> LayerState_init.tags,
     redo |-> s0.redo, undone |-> LayerState_init.undone,
     left_branch |-> LayerState_init.left_branch,
     right_branch |-> LayerState_init.right_branch,
     left3d |-> LayerState_init.left3d, right3d |-> LayerState_init.right3d,
     seed_locked |-> LayerState_init.seed_locked,
     layers_3d |-> <<>>, triangles_3d |-> <<>>,
     drag_i |-> s0.drag_i, raised |-> FALSE]

cm_clear(s0) ==
    [rows |-> LayerState_init.rows, tags |-> LayerState_init.tags,
     redo |-> LayerState_init.redo, undone |-> LayerState_init.undone,
     left_branch |-> LayerState_init.left_branch,
     right_branch |-> LayerState_init.right_branch,
     left3d |-> LayerState_init.left3d, right3d |-> LayerState_init.right3d,
     seed_locked |-> LayerState_init.seed_locked,
     layers_3d |-> <<>>, triangles_3d |-> <<>>,
     drag_i |-> s0.drag_i, raised |-> FALSE]

\* ------------------------------ CanvasManager: the 'tri' lines on the canvas
\* The lines tagged 'tri', in the order they were created, each as
\* <<layer tag, start, end>>.  drawing.draw_triangle(cv, p, q, r, ...) creates
\* the line p -> q with the tags (tag, 'row') and the lines q -> r and r -> p
\* with the tags (tag, 'tri').
tri_of(p, q, r, tag) == <<<<tag, q, r>>, <<tag, r, p>>>>

\* _make_next: the 'tri' lines of its first k iterations; an iteration reads
\* parent3d[i+1] (line 230) before it draws (line 236)
RECURSIVE make_next_tri(_, _, _, _)
make_next_tri(parent2d, side, tag, k) ==
    IF k = 0 THEN <<>>
    ELSE make_next_tri(parent2d, side, tag, k - 1)
           \o tri_of(parent2d[k], parent2d[k + 1],
                     third_vertex(parent2d[k], parent2d[k + 1], side), tag)

make_next_drawn(parent2d, parent3d, side, tag) ==
    make_next_tri(parent2d, side, tag, Min(Pairs(parent2d), Pairs(parent3d)))

\* the mode branch of add_layer and redo_layer
both_drawn(s, tag) ==
    make_next_drawn(s.left_branch[1], s.left3d[1], 1, tag)
      \o (IF make_next(s.left_branch[1], s.left3d[1], 1).ok
          THEN make_next_drawn(s.right_branch[1], s.right3d[1], -1, tag)
          ELSE <<>>)

build_drawn(s, side, parent2d, parent3d, tag) ==
    IF side = "BOTH"
    THEN both_drawn(both_start(s, parent2d, parent3d), tag)
    ELSE make_next_drawn(parent2d, parent3d, IF side = "LEFT" THEN 1 ELSE -1, tag)

tri_add_layer_build(items, s, side, tag) ==
    items \o build_drawn(s, side, Last(s.rows), Last(s.layers_3d), tag)

tri_add_layer(items, s0, side) ==
    IF s0.rows = <<>> \/ Len(Last(s0.rows)) < 2 THEN items
    ELSE tri_add_layer_build(items, seed3d(s0), side, Tag(Len(s0.tags)))

tri_redo_build(items, s, side, tag) ==
    IF Len(s.rows) < 2 \/ s.layers_3d = <<>> THEN items
    ELSE items \o build_drawn(s, side, s.rows[Len(s.rows) - 1], Last(s.layers_3d), tag)

tri_redo_popped(items, p, side) ==
    IF p[2] = None THEN items ELSE tri_redo_build(items, p[1], side, p[2][1])

tri_redo_layer(items, s0, side) ==
    tri_redo_popped(items, LayerState_redo_layer(s0), side)

RECURSIVE tri_auto_run_loop(_, _, _)
tri_auto_run_step(t, items, side) ==
    IF t.raised THEN items ELSE tri_auto_run_loop(t, items, side)

tri_auto_run_loop(s, items, side) ==
    IF s.rows # <<>> /\ Len(Last(s.rows)) > 2
    THEN tri_auto_run_step(cm_add_layer(s, side), tri_add_layer(items, s, side), side)
    ELSE items

tri_auto_run(items, s0, side) ==
    IF side = "BOTH" THEN items
    ELSE tri_auto_run_loop([s0 EXCEPT !.raised = FALSE], items, side)

\* clear: cv.delete('all')
tri_clear == <<>>

\* ------------------------------------------- CanvasManager: the Tk canvas
\* drawing.draw_triangle and the row line of _make_next: lines tagged
\* (tag, 'row') and (tag, 'tri') and a dot tagged (tag, 'dot'), created visible
draw_triangle(c, tag) ==
    c \cup {<<tag, "row", "normal">>, <<tag, "tri", "normal">>,
            <<tag, "dot", "normal">>}

\* cv.itemconfigure(t, state=st): every item that carries the layer tag t
itemconfigure(c, t, st) ==
    {<<i[1], i[2], IF i[1] = t THEN st ELSE i[3]>> : i \in c}

\* cv.itemconfigure(kind, state=...), kind one of 'dot', 'row', 'tri'
visibility_kind(c, kind, v) ==
    {<<i[1], i[2], IF i[2] # kind THEN i[3]
                   ELSE IF v[kind] THEN "normal" ELSE "hidden">> : i \in c}

RECURSIVE visibility_undone(_, _)
visibility_undone(c, und) ==
    IF und = {} THEN c
    ELSE LET t == CHOOSE u \in und : TRUE
         IN  visibility_undone(itemconfigure(c, t, "hidden"), und \ {t})

update_visibility(c, und, v) ==
    visibility_undone(
        visibility_kind(visibility_kind(visibility_kind(c, "dot", v), "row", v),
                        "tri", v),
        und)

\* what a callback does to the canvas, from the state s before it and the
\* state t after it.  _make_next draws a triangle in exactly the iterations
\* that append a face to triangles_3d (lines 231-250).
drawn(c, s, t, tag) ==
    IF Len(t.triangles_3d) > Len(s.triangles_3d) THEN draw_triangle(c, tag) ELSE c

\* the tail of a callback: update_hull and update_visibility, not reached when
\* the callback raised
cv_tail(c, t, v) ==
    IF t.raised THEN c ELSE update_visibility(c, t.undone, v)

cv_on_click(c, s, t, v) ==
    IF t.rows = s.rows THEN c ELSE cv_tail(c, t, v)

cv_on_drag(c, s, t, v) ==
    IF s.drag_i = 0 THEN c ELSE cv_tail(c, t, v)

cv_add_layer(c, s, t, v) ==
    IF s.rows = <<>> \/ Len(Last(s.rows)) < 2 THEN c
    ELSE cv_tail(drawn(c, s, t, Tag(Len(s.tags))), t, v)

cv_undo_layer(c, s, t, v) ==
    IF Len(t.tags) = Len(s.tags) THEN c
    ELSE cv_tail(itemconfigure(c, Last(s.tags), "hidden"), t, v)

cv_redo_layer(c, s, t, v) ==
    IF Len(t.redo) = Len(s.redo) THEN c
    ELSE cv_tail(drawn(itemconfigure(c, Last(t.tags), "normal"), s, t, Last(t.tags)),
                 t, v)

RECURSIVE cv_auto_run_loop(_, _, _, _)
cv_auto_run_step(t, c, side, v) ==
    IF t.raised THEN c ELSE cv_auto_run_loop(t, c, side, v)

cv_auto_run_grown(s, t, c, side, v) ==
    cv_auto_run_step(t, cv_add_layer(c, s, t, v), side, v)

cv_auto_run_loop(s, c, side, v) ==
    IF s.rows # <<>> /\ Len(Last(s.rows)) > 2
    THEN cv_auto_run_grown(s, cm_add_layer(s, side), c, side, v)
    ELSE c

cv_auto_run(c, s0, side, v) ==
    IF side = "BOTH" THEN c
    ELSE cv_auto_run_loop([s0 EXCEPT !.raised = FALSE], c, side, v)

\* clear: cv.delete('all')
cv_clear == {}

\* ------------------------------------- CanvasManager.update_hull: the walk
\* update_hull as a function of the 'tri' lines on the canvas, in the order
\* find_withtag returns them.  A line is its coords <<x1, y1, x2, y2>>, each
\* coordinate an integer number of half pixels.

\* int(round(c)) for c = n/2: Python rounds a half to the even integer
Round(n) ==
    IF n % 2 = 0 THEN n \div 2
    ELSE IF ((n - 1) \div 2) % 2 = 0 THEN (n - 1) \div 2 ELSE (n + 1) \div 2

\* tuple order of Python on points
PointLess(p, q) == p[1] < q[1] \/ (p[1] = q[1] /\ p[2] < q[2])

\* tuple(sorted((p, q)))
hull_key(p, q) == IF PointLess(q, p) THEN <<q, p>> ELSE <<p, q>>

\* lines 414-418: the key of one canvas line
line_key(coords) ==
    hull_key(<<Round(coords[1]), Round(coords[2])>>,
             <<Round(coords[3]), Round(coords[4])>>)

\* lines 413-418: the keys of the lines, in canvas order
line_keys(lines) == [i \in 1..Len(lines) |-> line_key(lines[i])]

\* edge_cnt: its keys in insertion order, and the count of a key
edge_keys_add(keys, key) ==
    IF \E j \in 1..Len(keys) : keys[j] = key THEN keys ELSE Append(keys, key)

RECURSIVE edge_keys(_, _)
edge_keys(lkeys, i) ==
    IF i = 0 THEN <<>>
    ELSE edge_keys_add(edge_keys(lkeys, i - 1), lkeys[i])

edge_cnt(lkeys, key) ==
    Cardinality({i \in 1..Len(lkeys) : lkeys[i] = key})

\* mutant: a boundary that keeps the edges counted twice
Mut_boundary_keeps_shared(lkeys, keys) == keys

\* line 421
boundary_of(lkeys, keys) ==
    LET Once(key) == edge_cnt(lkeys, key) = 1
    IN  SelectSeq(keys, Once)

\* lines 429-432: the keys of adj in insertion order, and adj[v]
adj_keys_add(keys, e) == edge_keys_add(edge_keys_add(keys, e[1]), e[2])

RECURSIVE adj_keys(_, _)
adj_keys(boundary, i) ==
    IF i = 0 THEN <<>>
    ELSE adj_keys_add(adj_keys(boundary, i - 1), boundary[i])

adj_add_q(nbrs, e, v) == IF e[2] = v THEN Append(nbrs, e[1]) ELSE nbrs

adj_add(nbrs, e, v) ==
    adj_add_q(IF e[1] = v THEN Append(nbrs, e[2]) ELSE nbrs, e, v)

RECURSIVE adj(_, _, _)
adj(boundary, v, i) ==
    IF i = 0 THEN <<>>
    ELSE adj_add(adj(boundary, v, i - 1), boundary[i], v)

\* lines 445-450: the first neighbour of curr over an unvisited edge
unvisited(curr, nbrs, visited) ==
    {j \in 1..Len(nbrs) : hull_key(curr, nbrs[j]) \notin visited}

first_unvisited(curr, nbrs, js) ==
    IF js = {} THEN None
    ELSE Some(nbrs[CHOOSE j \in js : \A k \in js : j <= k])

\* lines 443-454: the while loop; the result is <<loop, visited>>
RECURSIVE walk(_, _, _, _, _)
walk_next(boundary, visited, start, curr, loop, nxt) ==
    IF nxt = None THEN <<loop, visited>>
    ELSE IF nxt[1] = start
         THEN <<loop, visited \cup {hull_key(curr, nxt[1])}>>
         ELSE walk(boundary, visited \cup {hull_key(curr, nxt[1])}, start,
                   nxt[1], Append(loop, nxt[1]))

walk_pick(boundary, visited, start, curr, loop, nbrs) ==
    walk_next(boundary, visited, start, curr, loop,
              first_unvisited(curr, nbrs, unvisited(curr, nbrs, visited)))

walk(boundary, visited, start, curr, loop) ==
    walk_pick(boundary, visited, start, curr, loop,
              adj(boundary, curr, Len(boundary)))

\* lines 437-458: the loop over the start vertices
RECURSIVE walk_starts(_, _, _, _, _)
walk_done(boundary, starts, i, loops, w) ==
    walk_starts(boundary, starts, i + 1,
                IF Len(w[1]) > 2 THEN Append(loops, Append(w[1], starts[i]))
                ELSE loops,
                w[2])

walk_from(boundary, starts, i, loops, visited, nbrs) ==
    IF unvisited(starts[i], nbrs, visited) = {}
    THEN walk_starts(boundary, starts, i + 1, loops, visited)
    ELSE walk_done(boundary, starts, i, loops,
                   walk(boundary, visited, starts[i], starts[i], <<starts[i]>>))

walk_starts(boundary, starts, i, loops, visited) ==
    IF i > Len(starts) THEN loops
    ELSE walk_from(boundary, starts, i, loops, visited,
                   adj(boundary, starts[i], Len(boundary)))

\* lines 421-458: the loops drawn as hull lines
hull_loops(boundary) ==
    IF Len(boundary) < 3 THEN <<>>
    ELSE walk_starts(boundary, adj_keys(boundary, Len(boundary)), 1, <<>>, {})

hull_of_keys(lkeys) ==
    hull_loops(boundary_of(lkeys, edge_keys(lkeys, Len(lkeys))))

update_hull(lines) == hull_of_keys(line_keys(lines))

\* update_hull, lines 414-418, on the lines of tri_items.  The point a + b*w is
\* at x = a + b/2, y = b*sqrt(3)/2: int(round(x)) is Round of 2a + b half
\* pixels, and int(round(y)) is the integer m with (2m-1)^2 < 3*b^2 < (2m+1)^2
\* (3*b^2 is no square, so y is never half way between two integers).
round_y_abs(b) ==
    CHOOSE m \in 0..b : (2 * m - 1) * (2 * m - 1) < 3 * b * b
                          /\ 3 * b * b < (2 * m + 1) * (2 * m + 1)

round_y(b) ==
    IF b = 0 THEN 0 ELSE IF b > 0 THEN round_y_abs(b) ELSE -round_y_abs(-b)

pixel(p) == <<Round(2 * p[1] + p[2]), round_y(p[2])>>

item_key(item) == hull_key(pixel(item[2]), pixel(item[3]))

item_keys(items) == [i \in 1..Len(items) |-> item_key(items[i])]

\* ------------------------------------------------------ exporter.export_obj
\* The first argument of export_obj is a Python object: <<"CanvasManager", t>>
\* is a CanvasManager whose triangles_3d is t, <<"list", t>> is the list t
\* itself.  A list has no attribute triangles_3d.
has_triangles_3d(obj) == obj[1] = "CanvasManager"

\* the vertices of the faces, in the order the loops of lines 114-115 visit them
RECURSIVE face_vertices(_)
face_vertices(tris) ==
    IF tris = <<>> THEN <<>>
    ELSE face_vertices(Front(tris)) \o <<Last(tris)[1], Last(tris)[2], Last(tris)[3]>>

\* lines 111-119: a vertex is appended the first time it is seen
RECURSIVE first_seen(_)
first_seen_next(vertices, v) ==
    IF \E i \in 1..Len(vertices) : vertices[i] = v THEN vertices
    ELSE Append(vertices, v)

first_seen(vs) ==
    IF vs = <<>> THEN <<>> ELSE first_seen_next(first_seen(Front(vs)), Last(vs))

\* vert_map[v]: len(vertices) + 1 at the time v was appended
vert_map(vertices, v) == CHOOSE i \in 1..Len(vertices) : vertices[i] = v

\* lines 122-128
obj_faces(tris, vertices) ==
    [i \in 1..Len(tris) |-> <<vert_map(vertices, tris[i][1]),
                              vert_map(vertices, tris[i][2]),
                              vert_map(vertices, tris[i][3])>>]

\* lines 131-148: the 'v' lines and the 'f' lines of the file.  A 'v' line
\* holds the three coordinates of the vertex printed with six decimals; the
\* model keeps the vertex.
obj_file(tris, vertices) == [v |-> vertices, f |-> obj_faces(tris, vertices)]

\* line 114 raises AttributeError before the file is opened (the try of line
\* 131 does not cover it)
export_obj(canvas_mgr) ==
    IF ~has_triangles_3d(canvas_mgr) THEN [raised |-> TRUE, file |-> None]
    ELSE [raised |-> FALSE,
          file   |-> Some(obj_file(canvas_mgr[2],
                                   first_seen(face_vertices(canvas_mgr[2]))))]

\* TriGrowthController.export_dialog: the svg and png exports write files the
\* model does not hold; line 121 gives export_obj the list triangles_3d
Formats == {"", "svg", "png", "obj", "stl"}

export_dialog_of(fmt, path) ==
    IF fmt = "obj" /\ path
    THEN export_obj(<<"list", triangles_3d>>)
    ELSE exported

\* --------------------------------------------------- geometry.convex_hull
\* the points are pairs of integers here, in canvas coordinates
cross(o, a, b) ==
    (a[1] - o[1]) * (b[2] - o[2]) - (a[2] - o[2]) * (b[1] - o[1])

\* sorted(points)
RECURSIVE sorted_points(_)
sorted_rest(points, m) ==
    <<points[m]>> \o sorted_points(SubSeq(points, 1, m - 1)
                                     \o SubSeq(points, m + 1, Len(points)))

sorted_points(points) ==
    IF points = <<>> THEN <<>>
    ELSE sorted_rest(points,
                     CHOOSE m \in 1..Len(points) :
                         /\ \A j \in 1..Len(points) : ~PointLess(points[j], points[m])
                         /\ \A j \in 1..(m - 1) : points[j] # points[m])

\* lines 20-21 and 26-27: the while loop that pops the chain
RECURSIVE chain_pop(_, _)
chain_pop(chain, p) ==
    IF Len(chain) >= 2 /\ cross(chain[Len(chain) - 1], chain[Len(chain)], p) < 0
    THEN chain_pop(Front(chain), p)
    ELSE chain

\* lines 18-22 and 24-28: the for loop that builds lower or upper
RECURSIVE chain_of(_, _, _)
chain_of(points, i, chain) ==
    IF i > Len(points) THEN chain
    ELSE chain_of(points, i + 1, Append(chain_pop(chain, points[i]), points[i]))

reversed(points) == [i \in 1..Len(points) |-> points[Len(points) + 1 - i]]

hull_of_sorted(points) ==
    Front(chain_of(points, 1, <<>>)) \o Front(chain_of(reversed(points), 1, <<>>))

convex_hull(points) ==
    IF Len(points) < 3 THEN points ELSE hull_of_sorted(sorted_points(points))

\* ------------------------------------------------------- GUI.py TriGrowthApp
App_Hits(row, x) ==
    {i \in 1..Len(row) :
        (2 * x - 2 * row[i][1] - row[i][2]) * (2 * x - 2 * row[i][1] - row[i][2])
          + 3 * row[i][2] * row[i][2] <= 4 * (App_DOT_R * 3) * (App_DOT_R * 3)}

App_on_click(s0, x) ==
    LET s == [s0 EXCEPT !.raised = FALSE]
    IN  IF s.seed_locked THEN s
        ELSE LET r1   == IF s.rows = <<>> THEN <<<<>>>> ELSE s.rows
                 hits == App_Hits(r1[1], x)
             IN  IF hits # {}
                 THEN [s EXCEPT !.rows = r1,
                                !.drag_i = CHOOSE i \in hits : \A j \in hits : i <= j]
                 ELSE [s EXCEPT !.rows = [r1 EXCEPT ![1] = Append(@, <<x, 0>>)]]

App_on_drag(s0, x) ==
    LET s == [s0 EXCEPT !.raised = FALSE]
    IN  IF s.drag_i = 0 THEN s
        ELSE IF s.rows = <<>> \/ s.drag_i > Len(s.rows[1])
             THEN [s EXCEPT !.raised = TRUE]          \* IndexError
             ELSE [s EXCEPT !.rows[1][s.drag_i] = <<x, 0>>]

App_on_release(s0) ==
    [s0 EXCEPT !.drag_i = 0, !.raised = FALSE]

App_third(p, q, s) ==
    LET vx == q[1] - p[1]
        vy == q[2] - p[2]
        r  == IF s = 1 THEN <<-vy, vx + vy>> ELSE <<vx + vy, -vx>>
    IN  <<p[1] + r[1], p[2] + r[2]>>

App_next(row, sign) ==
    [i \in 1..(IF row = <<>> THEN 0 ELSE Len(row) - 1) |->
        App_third(row[i], row[i + 1], sign)]

App_add_layer(s0, side) ==
    LET s == [s0 EXCEPT !.raised = FALSE]
    IN  IF s.rows = <<>> \/ Len(Last(s.rows)) < 2 THEN s
        ELSE LET s1  == [s EXCEPT !.seed_locked = TRUE, !.redo = <<>>]
                 tag == Tag(Len(s1.tags))
             IN  IF side = "BOTH"
                 THEN LET s2 == IF s1.left_branch = None
                                THEN [s1 EXCEPT !.left_branch = Some(Last(s1.rows)),
                                                !.right_branch = Some(Last(s1.rows))]
                                ELSE s1
                          nl == App_next(s2.left_branch[1], 1)
                          nr == App_next(s2.right_branch[1], -1)
                      IN  [s2 EXCEPT !.left_branch = Some(nl),
                                     !.right_branch = Some(nr),
                                     !.rows = Append(@, nl \o nr),
                                     !.tags = Append(@, tag)]
                 ELSE LET sign == IF side = "LEFT" THEN 1 ELSE -1
                      IN  [s1 EXCEPT !.left_branch = None,
                                     !.right_branch = None,
                                     !.rows = Append(@, App_next(Last(s1.rows), sign)),
                                     !.tags = Append(@, tag)]

App_undo_layer(s0) ==
    LET s == [s0 EXCEPT !.raised = FALSE]
    IN  IF Len(s.rows) <= 1 THEN s
        ELSE LET t == [s EXCEPT !.rows = Front(s.rows),
                                !.tags = Front(s.tags),
                                !.redo = Append(s.redo, <<Last(s.rows), Last(s.tags)>>)]
             IN  IF Len(t.rows) = 1 THEN [t EXCEPT !.seed_locked = FALSE] ELSE t

App_redo_layer(s0) ==
    LET s == [s0 EXCEPT !.raised = FALSE]
    IN  IF s.redo = <<>> THEN s
        ELSE LET e == Last(s.redo)
             IN  [s EXCEPT !.redo = Front(s.redo),
                           !.rows = Append(s.rows, e[1]),
                           !.tags = Append(s.tags, e[2]),
                           !.seed_locked = TRUE]

RECURSIVE App_auto_run_loop(_, _)
App_auto_run_loop(s, side) ==
    IF s.rows # <<>> /\ Len(Last(s.rows)) > 2
    THEN App_auto_run_loop(App_add_layer(s, side), side)
    ELSE s

App_auto_run(s0, side) ==
    LET s == [s0 EXCEPT !.raised = FALSE]
    IN  IF side = "BOTH" THEN s ELSE App_auto_run_loop(s, side)

App_clear(s0) ==
    [s0 EXCEPT !.rows = <<>>, !.tags = <<>>, !.redo = <<>>,
               !.left_branch = None, !.right_branch = None,
               !.seed_locked = FALSE, !.raised = FALSE]

\* --------------------------------------------- GUI.py TriGrowthApp: the canvas
\* _draw_tri: lines tagged (tag, 'row') and (tag, 'tri') and the dot of
\* _draw_point tagged (tag, 'dot'), created visible
App_draw_tri(c, tag) ==
    c \cup {<<tag, "row", "normal">>, <<tag, "tri", "normal">>,
            <<tag, "dot", "normal">>}

\* _next draws one triangle for each pair of neighbours of the row
App_cv_next(c, row, tag) == IF Len(row) >= 2 THEN App_draw_tri(c, tag) ELSE c

\* update_visibility, lines 149-153: the state of every item follows the toggle
\* of its kind
App_update_visibility(c, v) ==
    visibility_kind(visibility_kind(visibility_kind(c, "dot", v), "row", v), "tri", v)

\* pts of update_hull, line 158: its length
RECURSIVE App_pts(_)
App_pts(rs) == IF rs = <<>> THEN 0 ELSE App_pts(Front(rs)) + Len(Last(rs))

\* update_hull: returns before update_visibility when there are fewer than
\* three points
App_update_hull(c, s, v) ==
    IF App_pts(s.rows) < 3 THEN c ELSE App_update_visibility(c, v)

App_cv_on_click(c, s, t, v) ==
    IF t.rows = s.rows THEN c ELSE App_update_hull(c, t, v)

App_cv_on_drag(c, s, t, v) ==
    IF s.drag_i = 0 THEN c ELSE App_update_hull(c, t, v)

App_cv_both(c, s, tag) ==
    IF s.left_branch = None
    THEN App_cv_next(App_cv_next(c, Last(s.rows), tag), Last(s.rows), tag)
    ELSE App_cv_next(App_cv_next(c, s.left_branch[1], tag), s.right_branch[1], tag)

App_cv_build(c, s, side, tag) ==
    IF side = "BOTH" THEN App_cv_both(c, s, tag)
    ELSE App_cv_next(c, Last(s.rows), tag)

App_cv_add_layer(c, s, side, v) ==
    IF s.rows = <<>> \/ Len(Last(s.rows)) < 2 THEN c
    ELSE App_update_visibility(App_cv_build(c, s, side, Tag(Len(s.tags))), v)

\* undo_layer, lines 127-132: the tag is hidden and update_visibility follows
App_cv_undo_layer(c, s, v) ==
    IF Len(s.rows) <= 1 THEN c
    ELSE App_update_visibility(itemconfigure(c, Last(s.tags), "hidden"), v)

App_cv_redo_layer(c, s, v) ==
    IF s.redo = <<>> THEN c
    ELSE App_update_visibility(itemconfigure(c, Last(s.redo)[2], "normal"), v)

RECURSIVE App_cv_auto_run_loop(_, _, _, _)
App_cv_auto_run_loop(c, s, side, v) ==
    IF s.rows # <<>> /\ Len(Last(s.rows)) > 2
    THEN App_cv_auto_run_loop(App_cv_add_layer(c, s, side, v),
                              App_add_layer(s, side), side, v)
    ELSE c

App_cv_auto_run(c, s, side, v) ==
    IF side = "BOTH" THEN c ELSE App_cv_auto_run_loop(c, s, side, v)

\* clear: cv.delete('all')
App_cv_clear == {}

\* ------------------------------------------------------- gui.py TriGrowthGUI
\* The fixed-step extrusion.  on_click, on_drag and on_release are those of
\* CanvasManager, statement for statement, and so are draw_triangle,
\* update_visibility and what undo_layer does to the canvas.

\* z = idx * HEIGHT_STEP, line 152, as a height
height_of(idx) == HAdd({}, 1, idx * HEIGHT_STEP)

\* (x, y, z) for the 2D point p
at_z(p, z) == <<p[1], p[2], z>>

\* _make_next: the children it returns
TriGrowthGUI_make_next(row_2d, side) ==
    [i \in 1..Pairs(row_2d) |-> third_vertex(row_2d[i], row_2d[i + 1], side)]

\* _make_next, lines 199-204: the faces it appends; p3d, q3d and c3d all get z
faces_at(row_2d, side, z) ==
    [i \in 1..Pairs(row_2d) |->
        <<at_z(row_2d[i], z), at_z(row_2d[i + 1], z),
          at_z(third_vertex(row_2d[i], row_2d[i + 1], side), z)>>]

\* lines 170-175: state.push, then the new row is recorded at z
TriGrowthGUI_push(s, new_row_2d, tag, z) ==
    [LayerState_push(s, new_row_2d, tag) EXCEPT
        !.layers_3d = Append(@, [i \in 1..Len(new_row_2d) |-> at_z(new_row_2d[i], z)])]

TriGrowthGUI_branches(s) ==
    IF s.left_branch = None
    THEN [s EXCEPT !.left_branch = Some(Last(s.rows)),
                   !.right_branch = Some(Last(s.rows))]
    ELSE s

TriGrowthGUI_both(s, l, r, tag, z) ==
    TriGrowthGUI_push(
        [s EXCEPT !.left_branch = Some(TriGrowthGUI_make_next(l, 1)),
                  !.right_branch = Some(TriGrowthGUI_make_next(r, -1)),
                  !.triangles_3d = @ \o faces_at(l, 1, z) \o faces_at(r, -1, z)],
        TriGrowthGUI_make_next(l, 1) \o TriGrowthGUI_make_next(r, -1), tag, z)

TriGrowthGUI_single(s, sign, tag, z) ==
    TriGrowthGUI_push(
        [s EXCEPT !.left_branch = None, !.right_branch = None,
                  !.triangles_3d = @ \o faces_at(Last(s.rows), sign, z)],
        TriGrowthGUI_make_next(Last(s.rows), sign), tag, z)

TriGrowthGUI_build(s, side, tag, z) ==
    IF side = "BOTH"
    THEN TriGrowthGUI_both(TriGrowthGUI_branches(s),
                           TriGrowthGUI_branches(s).left_branch[1],
                           TriGrowthGUI_branches(s).right_branch[1], tag, z)
    ELSE TriGrowthGUI_single(s, IF side = "LEFT" THEN 1 ELSE -1, tag, z)

TriGrowthGUI_add_layer(s0, side) ==
    IF s0.rows = <<>> \/ Len(Last(s0.rows)) < 2 THEN [s0 EXCEPT !.raised = FALSE]
    ELSE TriGrowthGUI_build([s0 EXCEPT !.raised = FALSE, !.seed_locked = TRUE],
                            side, Tag(Len(s0.tags)), height_of(Len(s0.tags)))

\* undo_layer, lines 221-227: the faces whose first vertex is at the height
\* len(layers_3d) * HEIGHT_STEP are dropped
TriGrowthGUI_remove(tris, z_to_remove) ==
    LET Kept(tri) == tri[1][3] # z_to_remove
    IN  SelectSeq(tris, Kept)

TriGrowthGUI_popped(s, tag, l3d) ==
    [s EXCEPT !.undone = @ \cup {tag},
              !.layers_3d = l3d,
              !.triangles_3d = TriGrowthGUI_remove(@, height_of(Len(l3d)))]

TriGrowthGUI_undone(p) ==
    IF p[2] = None THEN p[1]
    ELSE TriGrowthGUI_popped(p[1], p[2][1],
                             IF p[1].layers_3d = <<>> THEN <<>>
                             ELSE Front(p[1].layers_3d))

TriGrowthGUI_undo_layer(s0) ==
    TriGrowthGUI_undone(LayerState_pop([s0 EXCEPT !.raised = FALSE]))

\* redo_layer, lines 239-287: the row is recorded again at its height and the
\* faces are built again from rows[-2]; in the mode BOTH on the whole parent
\* row, to the left and then to the right
TriGrowthGUI_refaced(parent_row, side, z) ==
    IF side = "BOTH"
    THEN faces_at(parent_row, 1, z) \o faces_at(parent_row, -1, z)
    ELSE faces_at(parent_row, IF side = "LEFT" THEN 1 ELSE -1, z)

TriGrowthGUI_repushed(s, tag, side, z) ==
    [s EXCEPT !.undone = @ \ {tag},
              !.layers_3d = Append(@, [i \in 1..Len(Last(s.rows)) |->
                                          at_z(Last(s.rows)[i], z)]),
              !.triangles_3d = @ \o TriGrowthGUI_refaced(s.rows[Len(s.rows) - 1], side, z)]

TriGrowthGUI_redone(p, side) ==
    IF p[2] = None THEN p[1]
    ELSE TriGrowthGUI_repushed(p[1], p[2][1], side, height_of(Len(p[1].tags) - 1))

TriGrowthGUI_redo_layer(s0, side) ==
    TriGrowthGUI_redone(LayerState_redo_layer([s0 EXCEPT !.raised = FALSE]), side)

RECURSIVE TriGrowthGUI_auto_run_loop(_, _)
TriGrowthGUI_auto_run_loop(s, side) ==
    IF s.rows # <<>> /\ Len(Last(s.rows)) > 2
    THEN TriGrowthGUI_auto_run_loop(TriGrowthGUI_add_layer(s, side), side)
    ELSE s

TriGrowthGUI_auto_run(s0, side) ==
    IF side = "BOTH" THEN [s0 EXCEPT !.raised = FALSE]
    ELSE TriGrowthGUI_auto_run_loop([s0 EXCEPT !.raised = FALSE], side)

\* clear: a new LayerState, layers_3d and triangles_3d emptied
TriGrowthGUI_clear(s0) ==
    [s0 EXCEPT !.rows = <<>>, !.tags = <<>>, !.redo = <<>>, !.undone = {},
               !.left_branch = None, !.right_branch = None,
               !.seed_locked = FALSE, !.layers_3d = <<>>, !.triangles_3d = <<>>,
               !.raised = FALSE]

\* the 'tri' lines add_layer draws; redo_layer draws none
TriGrowthGUI_drawn(s, side, tag) ==
    IF side = "BOTH"
    THEN make_next_tri(TriGrowthGUI_branches(s).left_branch[1], 1, tag,
                       Pairs(TriGrowthGUI_branches(s).left_branch[1]))
           \o make_next_tri(TriGrowthGUI_branches(s).right_branch[1], -1, tag,
                            Pairs(TriGrowthGUI_branches(s).right_branch[1]))
    ELSE make_next_tri(Last(s.rows), IF side = "LEFT" THEN 1 ELSE -1, tag,
                       Pairs(Last(s.rows)))

TriGrowthGUI_tri_add_layer(items, s, side) ==
    IF s.rows = <<>> \/ Len(Last(s.rows)) < 2 THEN items
    ELSE items \o TriGrowthGUI_drawn(s, side, Tag(Len(s.tags)))

RECURSIVE TriGrowthGUI_tri_auto_run_loop(_, _, _)
TriGrowthGUI_tri_auto_run_loop(items, s, side) ==
    IF s.rows # <<>> /\ Len(Last(s.rows)) > 2
    THEN TriGrowthGUI_tri_auto_run_loop(TriGrowthGUI_tri_add_layer(items, s, side),
                                        TriGrowthGUI_add_layer(s, side), side)
    ELSE items

TriGrowthGUI_tri_auto_run(items, s, side) ==
    IF side = "BOTH" THEN items ELSE TriGrowthGUI_tri_auto_run_loop(items, s, side)

\* the canvas after redo_layer: the tag is shown again, nothing is drawn
TriGrowthGUI_cv_redo_layer(c, s, t, v) ==
    IF Len(t.redo) = Len(s.redo) THEN c
    ELSE cv_tail(itemconfigure(c, Last(t.tags), "normal"), t, v)

RECURSIVE TriGrowthGUI_cv_auto_run_loop(_, _, _, _)
TriGrowthGUI_cv_auto_run_loop(c, s, side, v) ==
    IF s.rows # <<>> /\ Len(Last(s.rows)) > 2
    THEN TriGrowthGUI_cv_auto_run_loop(
             cv_add_layer(c, s, TriGrowthGUI_add_layer(s, side), v),
             TriGrowthGUI_add_layer(s, side), side, v)
    ELSE c

TriGrowthGUI_cv_auto_run(c, s, side, v) ==
    IF side = "BOTH" THEN c ELSE TriGrowthGUI_cv_auto_run_loop(c, s, side, v)

\* ---------------------------------------------------------------- actions
Step ==
    /\ steps < MaxSteps
    /\ steps' = steps + 1
    /\ UNCHANGED <<app, vis, exported, tri_lines, hull, ch_call, tv_call>>

\* the history variable phase after a callback of the given kind gave state t
PhaseAfter(kind, t) ==
    IF t = State THEN phase
    ELSE IF kind = "pointer" THEN (IF phase = "seed" THEN "seed" ELSE "other")
    ELSE IF kind = "grow"
         THEN (IF phase # "other" /\ ~t.raised /\ Len(t.rows) > Len(rows)
               THEN "grows" ELSE "other")
    ELSE "other"

on_click ==
    /\ app = "main"
    /\ Step
    /\ drag_i = 0
    /\ \E x \in Positions :
          /\ \E t \in {cm_on_click(State, x)} :
                /\ Becomes(t)
                /\ phase' = PhaseAfter("pointer", t)
                /\ canvas' = cv_on_click(canvas, State, t, vis)
    /\ UNCHANGED <<side_var, tri_items>>

on_drag ==
    /\ app = "main"
    /\ Step
    /\ \E x \in Positions :
          /\ \E t \in {cm_on_drag(State, x)} :
                /\ Becomes(t)
                /\ phase' = PhaseAfter("pointer", t)
                /\ canvas' = cv_on_drag(canvas, State, t, vis)
    /\ UNCHANGED <<side_var, tri_items>>

on_release ==
    /\ app = "main"
    /\ Step
    /\ \E t \in {cm_on_release(State)} :
          /\ Becomes(t)
          /\ phase' = PhaseAfter("pointer", t)
    /\ UNCHANGED <<side_var, canvas, tri_items>>

add_layer ==
    /\ app = "main"
    /\ Step
    /\ \E t \in {cm_add_layer(State, side_var)} :
          /\ Becomes(t)
          /\ phase' = PhaseAfter("grow", t)
          /\ canvas' = cv_add_layer(canvas, State, t, vis)
          /\ tri_items' = tri_add_layer(tri_items, State, side_var)
    /\ UNCHANGED side_var

undo_layer ==
    /\ app = "main"
    /\ Step
    /\ \E t \in {cm_undo_layer(State)} :
          /\ Becomes(t)
          /\ phase' = PhaseAfter("history", t)
          /\ canvas' = cv_undo_layer(canvas, State, t, vis)
    /\ UNCHANGED <<side_var, tri_items>>

redo_layer ==
    /\ app = "main"
    /\ Step
    /\ \E t \in {cm_redo_layer(State, side_var)} :
          /\ Becomes(t)
          /\ phase' = PhaseAfter("history", t)
          /\ canvas' = cv_redo_layer(canvas, State, t, vis)
          /\ tri_items' = tri_redo_layer(tri_items, State, side_var)
    /\ UNCHANGED side_var

auto_run ==
    /\ app = "main"
    /\ Step
    /\ \E t \in {cm_auto_run(State, side_var)} :
          /\ Becomes(t)
          /\ phase' = PhaseAfter("grow", t)
          /\ canvas' = cv_auto_run(canvas, State, side_var, vis)
          /\ tri_items' = tri_auto_run(tri_items, State, side_var)
    /\ UNCHANGED side_var

clear ==
    /\ app = "main"
    /\ Step
    /\ Becomes(cm_clear(State))
    /\ canvas' = cv_clear
    /\ tri_items' = tri_clear
    /\ phase' = "seed"
    /\ UNCHANGED side_var

select_side ==
    /\ app = "main"
    /\ Step
    /\ \E v \in Sides \ {side_var} : side_var' = v
    /\ phase' = IF phase = "grows" THEN "picked" ELSE phase
    /\ UNCHANGED <<rows, tags, redo, undone, left_branch, right_branch, left3d,
                   right3d, seed_locked, layers_3d, triangles_3d, drag_i, canvas,
                   tri_items>>

GUI_on_click ==
    /\ app = "GUI"
    /\ Step
    /\ drag_i = 0
    /\ \E x \in Positions :
          /\ \E t \in {App_on_click(State, x)} :
                /\ Becomes(t)
                /\ phase' = PhaseAfter("pointer", t)
                /\ canvas' = App_cv_on_click(canvas, State, t, vis)
    /\ UNCHANGED <<side_var, tri_items>>

GUI_on_drag ==
    /\ app = "GUI"
    /\ Step
    /\ \E x \in Positions :
          /\ \E t \in {App_on_drag(State, x)} :
                /\ Becomes(t)
                /\ phase' = PhaseAfter("pointer", t)
                /\ canvas' = App_cv_on_drag(canvas, State, t, vis)
    /\ UNCHANGED <<side_var, tri_items>>

GUI_on_release ==
    /\ app = "GUI"
    /\ Step
    /\ \E t \in {App_on_release(State)} :
          /\ Becomes(t)
          /\ phase' = PhaseAfter("pointer", t)
    /\ UNCHANGED <<side_var, canvas, tri_items>>

GUI_add_layer ==
    /\ app = "GUI"
    /\ Step
    /\ \E t \in {App_add_layer(State, side_var)} :
          /\ Becomes(t)
          /\ phase' = PhaseAfter("grow", t)
    /\ canvas' = App_cv_add_layer(canvas, State, side_var, vis)
    /\ UNCHANGED <<side_var, tri_items>>

GUI_undo_layer ==
    /\ app = "GUI"
    /\ Step
    /\ \E t \in {App_undo_layer(State)} :
          /\ Becomes(t)
          /\ phase' = PhaseAfter("history", t)
    /\ canvas' = App_cv_undo_layer(canvas, State, vis)
    /\ UNCHANGED <<side_var, tri_items>>

GUI_redo_layer ==
    /\ app = "GUI"
    /\ Step
    /\ \E t \in {App_redo_layer(State)} :
          /\ Becomes(t)
          /\ phase' = PhaseAfter("history", t)
    /\ canvas' = App_cv_redo_layer(canvas, State, vis)
    /\ UNCHANGED <<side_var, tri_items>>

GUI_auto_run ==
    /\ app = "GUI"
    /\ Step
    /\ \E t \in {App_auto_run(State, side_var)} :
          /\ Becomes(t)
          /\ phase' = PhaseAfter("grow", t)
    /\ canvas' = App_cv_auto_run(canvas, State, side_var, vis)
    /\ UNCHANGED <<side_var, tri_items>>

GUI_clear ==
    /\ app = "GUI"
    /\ Step
    /\ Becomes(App_clear(State))
    /\ phase' = "seed"
    /\ canvas' = App_cv_clear
    /\ UNCHANGED <<side_var, tri_items>>

GUI_select_side ==
    /\ app = "GUI"
    /\ Step
    /\ \E v \in Sides \ {side_var} : side_var' = v
    /\ phase' = IF phase = "grows" THEN "picked" ELSE phase
    /\ UNCHANGED <<rows, tags, redo, undone, left_branch, right_branch, left3d,
                   right3d, seed_locked, layers_3d, triangles_3d, drag_i, canvas,
                   tri_items>>

Next ==
    \/ on_click
    \/ on_drag
    \/ on_release
    \/ add_layer
    \/ undo_layer
    \/ redo_layer
    \/ auto_run
    \/ clear
    \/ select_side
    \/ GUI_on_click
    \/ GUI_on_drag
    \/ GUI_on_release
    \/ GUI_add_layer
    \/ GUI_undo_layer
    \/ GUI_redo_layer
    \/ GUI_auto_run
    \/ GUI_clear
    \/ GUI_select_side

Spec == Init /\ [][Next]_vars

\* ------------------------------------------- single-direction histories
\* the runs in which the selector never shows BOTH and the only callbacks are
\* seed clicks (press, release), LEFT/RIGHT grows, undos and redos
select_single ==
    /\ select_side
    /\ side_var' # "BOTH"

GUI_select_single ==
    /\ GUI_select_side
    /\ side_var' # "BOTH"

NextSingle ==
    \/ on_click
    \/ on_release
    \/ add_layer
    \/ undo_layer
    \/ redo_layer
    \/ auto_run
    \/ select_single
    \/ GUI_on_click
    \/ GUI_on_release
    \/ GUI_add_layer
    \/ GUI_undo_layer
    \/ GUI_redo_layer
    \/ GUI_auto_run
    \/ GUI_select_single

SpecSingle == Init /\ [][NextSingle]_vars

\* ------------------------------------------------- the visibility toggles
\* controllers.py lines 74-79, 95-96: a check button flips its variable and
\* calls CanvasManager.update_visibility
toggle_visibility ==
    /\ app = "main"
    /\ steps < MaxSteps
    /\ steps' = steps + 1
    /\ \E k \in Kinds : vis' = [vis EXCEPT ![k] = ~@]
    /\ canvas' = update_visibility(canvas, undone, vis')
    /\ UNCHANGED <<app, rows, tags, redo, undone, left_branch, right_branch, left3d,
                   right3d, seed_locked, layers_3d, triangles_3d, drag_i, side_var,
                   tri_items, exported, tri_lines, hull, ch_call, tv_call, phase>>

NextCanvas ==
    \/ on_click
    \/ on_drag
    \/ on_release
    \/ add_layer
    \/ undo_layer
    \/ redo_layer
    \/ toggle_visibility

SpecCanvas == Init /\ [][NextCanvas]_vars

\* ----------------------------------- the visibility toggles of TriGrowthApp
GUI_toggle_visibility ==
    /\ app = "GUI"
    /\ steps < MaxSteps
    /\ steps' = steps + 1
    /\ \E k \in Kinds : vis' = [vis EXCEPT ![k] = ~@]
    /\ canvas' = App_update_visibility(canvas, vis')
    /\ UNCHANGED <<app, rows, tags, redo, undone, left_branch, right_branch, left3d,
                   right3d, seed_locked, layers_3d, triangles_3d, drag_i, side_var,
                   tri_items, exported, tri_lines, hull, ch_call, tv_call, phase>>

NextAppCanvas ==
    \/ GUI_on_click
    \/ GUI_on_drag
    \/ GUI_on_release
    \/ GUI_add_layer
    \/ GUI_undo_layer
    \/ GUI_redo_layer
    \/ GUI_toggle_visibility

SpecAppCanvas == Init /\ [][NextAppCanvas]_vars

\* --------------------------------------------------------- the hull walk
\* three equilateral triangles of side 10 pixels, in half pixels; the second
\* shares an edge with the first, the third shares another edge with the first
HullTriangles ==
    {<<<<0, 0>>, <<20, 0>>, <<10, 17>>>>,
     <<<<20, 0>>, <<0, 0>>, <<10, -17>>>>,
     <<<<10, 17>>, <<20, 0>>, <<30, 17>>>>}

\* the three lines drawing.draw_triangle draws for (p, q, r)
TriangleLines(t) ==
    {<<t[1][1], t[1][2], t[2][1], t[2][2]>>,
     <<t[2][1], t[2][2], t[3][1], t[3][2]>>,
     <<t[3][1], t[3][2], t[1][1], t[1][2]>>}

HullLines == UNION {TriangleLines(t) : t \in HullTriangles}

\* a triangle line appears on the canvas and update_hull runs
create_line ==
    /\ app = "main"
    /\ Len(tri_lines) < MaxLines
    /\ \E l \in HullLines \ {tri_lines[i] : i \in 1..Len(tri_lines)} :
          tri_lines' = Append(tri_lines, l)
    /\ hull' = update_hull(tri_lines')
    /\ UNCHANGED <<app, rows, tags, redo, undone, left_branch, right_branch, left3d,
                   right3d, seed_locked, layers_3d, triangles_3d, drag_i, side_var,
                   canvas, vis, tri_items, exported, ch_call, tv_call, steps, phase>>

NextHull == create_line

SpecHull == Init /\ [][NextHull]_vars

\* ------------------------------------------------------------ the OBJ export
\* Export: the format typed into the dialog and whether a path was chosen
export_dialog_as(fmt, path) ==
    /\ app = "main"
    /\ steps < MaxSteps
    /\ steps' = steps + 1
    /\ exported' = export_dialog_of(fmt, path)
    /\ UNCHANGED <<app, rows, tags, redo, undone, left_branch, right_branch,
                   left3d, right3d, seed_locked, layers_3d, triangles_3d,
                   drag_i, side_var, canvas, vis, tri_items, tri_lines, hull,
                   ch_call, tv_call, phase>>

export_dialog == \E fmt \in Formats, path \in BOOLEAN : export_dialog_as(fmt, path)

NextExport ==
    \/ on_click
    \/ on_release
    \/ add_layer
    \/ undo_layer
    \/ select_side
    \/ export_dialog

SpecExport == Init /\ [][NextExport]_vars

\* ------------------------------------------------- gui.py: the callbacks
gui_on_click ==
    /\ app = "gui"
    /\ Step
    /\ drag_i = 0
    /\ \E x \in Positions :
          /\ \E t \in {cm_on_click(State, x)} :
                /\ Becomes(t)
                /\ phase' = PhaseAfter("pointer", t)
                /\ canvas' = cv_on_click(canvas, State, t, vis)
    /\ UNCHANGED <<side_var, tri_items>>

gui_on_drag ==
    /\ app = "gui"
    /\ Step
    /\ \E x \in Positions :
          /\ \E t \in {cm_on_drag(State, x)} :
                /\ Becomes(t)
                /\ phase' = PhaseAfter("pointer", t)
                /\ canvas' = cv_on_drag(canvas, State, t, vis)
    /\ UNCHANGED <<side_var, tri_items>>

gui_on_release ==
    /\ app = "gui"
    /\ Step
    /\ \E t \in {cm_on_release(State)} :
          /\ Becomes(t)
          /\ phase' = PhaseAfter("pointer", t)
    /\ UNCHANGED <<side_var, canvas, tri_items>>

gui_add_layer ==
    /\ app = "gui"
    /\ Step
    /\ \E t \in {TriGrowthGUI_add_layer(State, side_var)} :
          /\ Becomes(t)
          /\ phase' = PhaseAfter("grow", t)
          /\ canvas' = cv_add_layer(canvas, State, t, vis)
          /\ tri_items' = TriGrowthGUI_tri_add_layer(tri_items, State, side_var)
    /\ UNCHANGED side_var

gui_undo_layer ==
    /\ app = "gui"
    /\ Step
    /\ \E t \in {TriGrowthGUI_undo_layer(State)} :
          /\ Becomes(t)
          /\ phase' = PhaseAfter("history", t)
          /\ canvas' = cv_undo_layer(canvas, State, t, vis)
    /\ UNCHANGED <<side_var, tri_items>>

gui_redo_layer ==
    /\ app = "gui"
    /\ Step
    /\ \E t \in {TriGrowthGUI_redo_layer(State, side_var)} :
          /\ Becomes(t)
          /\ phase' = PhaseAfter("history", t)
          /\ canvas' = TriGrowthGUI_cv_redo_layer(canvas, State, t, vis)
    /\ UNCHANGED <<side_var, tri_items>>

gui_auto_run ==
    /\ app = "gui"
    /\ Step
    /\ \E t \in {TriGrowthGUI_auto_run(State, side_var)} :
          /\ Becomes(t)
          /\ phase' = PhaseAfter("grow", t)
          /\ canvas' = TriGrowthGUI_cv_auto_run(canvas, State, side_var, vis)
          /\ tri_items' = TriGrowthGUI_tri_auto_run(tri_items, State, side_var)
    /\ UNCHANGED side_var

gui_clear ==
    /\ app = "gui"
    /\ Step
    /\ Becomes(TriGrowthGUI_clear(State))
    /\ canvas' = cv_clear
    /\ tri_items' = tri_clear
    /\ phase' = "seed"
    /\ UNCHANGED side_var

gui_select_side ==
    /\ app = "gui"
    /\ Step
    /\ \E v \in Sides \ {side_var} : side_var' = v
    /\ phase' = IF phase = "grows" THEN "picked" ELSE phase
    /\ UNCHANGED <<rows, tags, redo, undone, left_branch, right_branch, left3d,
                   right3d, seed_locked, layers_3d, triangles_3d, drag_i, canvas,
                   tri_items>>

NextGui ==
    \/ gui_on_click
    \/ gui_on_drag
    \/ gui_on_release
    \/ gui_add_layer
    \/ gui_undo_layer
    \/ gui_redo_layer
    \/ gui_auto_run
    \/ gui_clear
    \/ gui_select_side

SpecGui == Init /\ [][NextGui]_vars

\* ------------------------------------------------- the geometry functions
\* the variables of the two applications
app_vars ==
    <<app, rows, tags, redo, undone, left_branch, right_branch, left3d, right3d,
      seed_locked, layers_3d, triangles_3d, drag_i, side_var, canvas, vis,
      tri_items, exported, steps, phase>>

\* convex_hull is called on a list of distinct points that is one point longer
\* than the list of the call before
Grid == (0..MaxGrid) \X (0..MaxGrid)

call_convex_hull ==
    /\ app = "main"
    /\ Len(ch_call.points) < MaxPoints
    /\ \E p \in Grid \ {ch_call.points[i] : i \in 1..Len(ch_call.points)} :
          \E points \in {Append(ch_call.points, p)} :
              ch_call' = [points |-> points, ret |-> convex_hull(points)]
    /\ UNCHANGED <<app_vars, tri_lines, hull, tv_call>>

NextConvexHull == call_convex_hull

SpecConvexHull == Init /\ [][NextConvexHull]_vars

\* third_vertex is called on two points a + b*w and a sign; each call differs
\* from the call before in the sign and in one of the two points
Lattice == (-MaxGrid..MaxGrid) \X (-MaxGrid..MaxGrid)

call_third_vertex ==
    /\ app = "main"
    /\ \E x \in Lattice, side \in {1, -1}, moved \in {"p", "q"} :
          \E p \in {IF moved = "p" THEN x ELSE tv_call.p},
             q \in {IF moved = "q" THEN x ELSE tv_call.q} :
              tv_call' = [p |-> p, q |-> q, side |-> side,
                          ret |-> third_vertex(p, q, side)]
    /\ UNCHANGED <<app_vars, tri_lines, hull, ch_call>>

NextThirdVertex == call_third_vertex

SpecThirdVertex == Init /\ [][NextThirdVertex]_vars

\* ================================================================ claims
\* the Undo Layer, Redo Layer and Add Layer callbacks of the program that runs
Undo(s) == IF app = "main" THEN cm_undo_layer(s) ELSE App_undo_layer(s)
Redo(s, side) == IF app = "main" THEN cm_redo_layer(s, side) ELSE App_redo_layer(s)
Grow(s, side) == IF app = "main" THEN cm_add_layer(s, side) ELSE App_add_layer(s, side)
UndoThenRedo(s, side) == Redo(Undo(s), side)

\* C1: in a state reached from a seed by successful grows alone, undo_layer
\* followed at once by redo_layer leaves rows, tags, the redo buffer,
\* seed_locked and the hidden-tag set undone exactly as they were.
C1_UndoRedoRoundTrip ==
    phase \in {"grows", "picked"} =>
        LET t == UndoThenRedo(State, side_var)
        IN  /\ t.rows = rows
            /\ t.tags = tags
            /\ t.redo = redo
            /\ t.seed_locked = seed_locked
            /\ t.undone = undone

\* two generations were grown on a seed and the undo removes the top one
C1_Witness ==
    /\ app = "main"
    /\ phase = "grows"
    /\ Len(rows) >= 3
    /\ Len(Undo(State).rows) = Len(rows) - 1
    /\ UndoThenRedo(State, side_var).rows = rows

GrowPushes ==
    /\ Len(rows') > Len(rows)
    /\ add_layer \/ auto_run \/ GUI_add_layer \/ GUI_auto_run
RedoIsDead == redo = <<>> /\ \A side \in Sides : Redo(State, side) = State

\* C2: right after every grow that pushes a generation the redo buffer is
\* empty, and a redo issued then changes nothing and raises nothing: what was
\* undone before the grow can no longer be pushed back.
C2_RedoInvalidation == [][GrowPushes => RedoIsDead']_vars

\* a generation was undone and another one grown in its place: the top tag is
\* active and still in undone, and the redo buffer is empty
C2_Witness ==
    /\ app = "main"
    /\ Len(rows) >= 2
    /\ Last(tags) \in undone
    /\ redo = <<>>

\* C3: in a state of CanvasManager reached by successful grows in any modes,
\* undo_layer then redo_layer with the selector untouched gives back the same
\* layers_3d and triangles_3d.
C3_MeshRoundTrip ==
    (app = "main" /\ phase = "grows") =>
        LET t == UndoThenRedo(State, side_var)
        IN  /\ t.layers_3d = layers_3d
            /\ t.triangles_3d = triangles_3d

\* C4: whenever the seed row exists, there is one tag per generation above
\* the seed: len(tags) = len(rows) - 1.
C4_TagsMatchRows == rows # <<>> => Len(tags) = Len(rows) - 1

\* generations were grown and one of them undone
C4_Witness == Len(rows) >= 2 /\ redo # <<>>

\* C5: once the seed row exists, only clear removes it: no undo, redo, grow
\* or pointer event leaves rows empty.
C5_SeedRowStays == [][rows # <<>> => (rows' # <<>> \/ clear \/ GUI_clear)]_vars

\* undo went back to the seed row and stopped there
C5_Witness ==
    /\ Len(rows) = 1
    /\ redo # <<>>
    /\ Undo(State) = State

\* C6: seed_locked is true exactly when a grown generation exists.
C6_SeedLockedIffGrown == seed_locked = (Len(rows) >= 2)

\* C7: while seed_locked is true no pointer event (click, motion, release)
\* changes generation 0.
C7_LockedSeedFrozen ==
    [][(/\ seed_locked
        /\ \/ on_click \/ on_drag \/ on_release
           \/ GUI_on_click \/ GUI_on_drag \/ GUI_on_release)
       => rows'[1] = rows[1]]_vars

\* C8: undo with at most the seed row, redo with an empty redo buffer, and
\* grow with no row or a top generation of fewer than 2 points leave the whole
\* state as it is and raise nothing.
C8_InvalidOpsAreNoOps ==
    /\ Len(rows) <= 1 => Undo(State) = State
    /\ redo = <<>> => \A side \in Sides : Redo(State, side) = State
    /\ (rows = <<>> \/ Len(Last(rows)) < 2) =>
           \A side \in Sides : Grow(State, side) = State

\* a grown history whose top generation is a single point and whose redo
\* buffer is empty: redo and grow are both invalid there, with rows, tags and
\* faces present that they must not touch
C8_Witness ==
    /\ Len(rows) >= 2
    /\ Len(Last(rows)) = 1
    /\ redo = <<>>
    /\ triangles_3d # <<>>
    /\ Grow(State, side_var) = State
    /\ Redo(State, side_var) = State

\* C9: every generation above the seed holds at least one point (a grow whose
\* source has fewer than 2 points pushes nothing).
C9_GrownGenerationsNonEmpty == \A i \in 2..Len(rows) : Len(rows[i]) >= 1

\* C10: in CanvasManager a LEFT or RIGHT grow on a top generation parent of
\* N >= 2 points pushes the one generation child, child[i] =
\* third_vertex(parent[i], parent[i+1], sign), and appends the N-1 faces
\* (parent[i], parent[i+1], child[i]).
C10_SingleGrowResult ==
    [][(/\ add_layer
        /\ side_var \in {"LEFT", "RIGHT"}
        /\ rows # <<>>
        /\ Len(Last(rows)) >= 2)
       => LET parent == Last(rows)
              N      == Len(parent)
              sign   == IF side_var = "LEFT" THEN 1 ELSE -1
              child  == [i \in 1..(N - 1) |->
                            third_vertex(parent[i], parent[i + 1], sign)]
              xy(p)  == <<p[1], p[2]>>
          IN  /\ rows' = Append(rows, child)
              /\ Len(triangles_3d') = Len(triangles_3d) + (N - 1)
              /\ \A i \in 1..(N - 1) :
                    LET f == triangles_3d'[Len(triangles_3d) + i]
                    IN  /\ xy(f[1]) = parent[i]
                        /\ xy(f[2]) = parent[i + 1]
                        /\ xy(f[3]) = child[i]]_vars

\* C11: in every state reached by seed clicks, LEFT/RIGHT grows, undos and
\* redos (no BOTH grow), every generation above the seed has exactly one point
\* fewer than the generation below it.
C11_SingleLengthLaw ==
    \A i \in 2..Len(rows) : Len(rows[i]) = Len(rows[i - 1]) - 1

\* a BOTH grow that pushes a generation (auto_run does nothing in BOTH mode)
BothGrowPushes ==
    /\ Len(rows') > Len(rows)
    /\ side_var = "BOTH"
    /\ add_layer \/ GUI_add_layer

\* the row each branch of the next BOTH grow is grown from
LeftSource == IF left_branch = None THEN Last(rows) ELSE left_branch[1]
RightSource == IF left_branch = None THEN Last(rows) ELSE right_branch[1]

\* C12 as stated: every BOTH grow that pushes a generation pushes one of
\* exactly 2*(len(parent)-1) points, parent being the top generation before
\* the grow, for the first BOTH grow and for every later consecutive one.
C12_DualLengthOfParent ==
    [][BothGrowPushes => Len(Last(rows')) = 2 * (Len(Last(rows)) - 1)]_vars

\* C12 as amended: every BOTH grow that pushes a generation pushes one of
\* (len(left source) - 1) + (len(right source) - 1) points, the sources being
\* the branch snapshots before the grow, or the top generation for both when
\* the snapshots are unset; that is 2*(len(parent)-1) for a BOTH grow that
\* starts from unset snapshots, and 2 points fewer than the top generation
\* when the top generation is the composite of the snapshots (a consecutive
\* BOTH grow).
C12_DualLength ==
    [][BothGrowPushes =>
         /\ Len(Last(rows')) = Pairs(LeftSource) + Pairs(RightSource)
         /\ left_branch = None => Len(Last(rows')) = 2 * (Len(Last(rows)) - 1)
         /\ (left_branch # None /\ Last(rows) = left_branch[1] \o right_branch[1])
               => Len(Last(rows')) = Len(Last(rows)) - 2]_vars

\* two consecutive BOTH grows on a seed of 3 points: 4 points, then 2
C12_Witness ==
    /\ side_var = "BOTH"
    /\ Len(rows) = 3
    /\ Len(rows[1]) = 3
    /\ Len(rows[2]) = 4
    /\ Len(rows[3]) = 2
    /\ left_branch # None
    /\ rows[3] = left_branch[1] \o right_branch[1]

\* one single-direction step on a row, and k of them
Step2D(row, sign) ==
    [i \in 1..Pairs(row) |-> third_vertex(row[i], row[i + 1], sign)]

RECURSIVE Iter2D(_, _, _)
Iter2D(row, sign, k) ==
    IF k = 0 THEN row ELSE Step2D(Iter2D(row, sign, k - 1), sign)

\* k BOTH grows in a row
RECURSIVE BothRun(_, _)
BothRun(s, k) == IF k = 0 THEN s ELSE Grow(BothRun(s, k - 1), "BOTH")

\* C13: from any state with unset branch snapshots and a top generation of
\* N >= 2 points, k consecutive BOTH grows (1 <= k <= N-1) push k generations,
\* the j-th being (j left steps on the top generation) followed by (j right
\* steps on the top generation), N-j points each, and leave the two parts of
\* the last one as the branch snapshots.
C13_DualBranchRun ==
    (left_branch = None /\ rows # <<>> /\ Len(Last(rows)) >= 2) =>
        \A k \in 1..(Len(Last(rows)) - 1) :
            LET t == BothRun(State, k)
            IN  /\ ~t.raised
                /\ t.rows = rows \o [j \in 1..k |->
                                Iter2D(Last(rows), 1, j) \o Iter2D(Last(rows), -1, j)]
                /\ t.left_branch = Some(Iter2D(Last(rows), 1, k))
                /\ t.right_branch = Some(Iter2D(Last(rows), -1, k))
                /\ Len(Iter2D(Last(rows), 1, k)) = Len(Last(rows)) - k
                /\ Len(Iter2D(Last(rows), -1, k)) = Len(Last(rows)) - k

\* a LEFT or RIGHT grow that pushes at least one generation
SingleGrowPushes ==
    /\ Len(rows') > Len(rows)
    /\ side_var \in {"LEFT", "RIGHT"}
    /\ add_layer \/ auto_run \/ GUI_add_layer \/ GUI_auto_run

\* C14: in every reachable state left_branch is None exactly when right_branch
\* is None, and right after every LEFT or RIGHT grow that pushes a generation
\* both are None.
C14_BranchesPaired ==
    /\ []((left_branch = None) <=> (right_branch = None))
    /\ [][SingleGrowPushes => (left_branch' = None /\ right_branch' = None)]_vars

\* a BOTH grow set the snapshots and a LEFT or RIGHT grow on the composite
\* row then reset them
C14_Witness ==
    /\ phase = "grows"
    /\ side_var \in {"LEFT", "RIGHT"}
    /\ Len(rows) = 3
    /\ Len(rows[1]) = 2
    /\ Len(rows[2]) = 2
    /\ Len(rows[3]) = 1
    /\ left_branch = None
    /\ right_branch = None

\* the state with the four branch snapshots unset
Unset(s) ==
    [s EXCEPT !.left_branch = None, !.right_branch = None,
              !.left3d = None, !.right3d = None]

\* C15: when the selector comes back to BOTH from LEFT or RIGHT, the BOTH grow
\* that follows gives what a BOTH grow from unset branch snapshots gives: both
\* branches start from the top generation of that moment, whatever snapshots
\* were taken before the selector left BOTH.
C15_ModeSwitchResets ==
    [][(side_var # "BOTH" /\ side_var' = "BOTH")
          => \A t \in {State'} : Grow(t, "BOTH") = Grow(Unset(t), "BOTH")]_vars

Max(a, b) == IF a >= b THEN a ELSE b

\* C16: with the selector on LEFT or RIGHT and a top generation of n points,
\* auto_run pushes exactly max(0, n-2) generations and leaves a top generation
\* of at most 2 points; with the selector on BOTH it changes nothing.
C16_AutoRunCompletes ==
    [][(auto_run \/ GUI_auto_run) =>
          IF side_var = "BOTH"
          THEN State' = State
          ELSE rows # <<>> =>
                  /\ Len(rows') = Len(rows) + Max(0, Len(Last(rows)) - 2)
                  /\ Len(Last(rows')) <= 2]_vars

Clear(s) == IF app = "main" THEN cm_clear(s) ELSE App_clear(s)

\* the growth state of a freshly constructed program
InitialGrowthState(t) ==
    /\ t.rows = <<>>
    /\ t.tags = <<>>
    /\ t.redo = <<>>
    /\ t.undone = {}
    /\ t.left_branch = None
    /\ t.right_branch = None
    /\ t.seed_locked = FALSE
    /\ t.layers_3d = <<>>
    /\ t.triangles_3d = <<>>

\* C17: every clear leaves rows, tags, the redo buffer and the hidden-tag set
\* empty, both branch snapshots None, seed_locked false and layers_3d and
\* triangles_3d empty, and a second clear right after it changes nothing.
C17_ClearResets ==
    [][(clear \/ GUI_clear) =>
          \A t \in {State'} : InitialGrowthState(t) /\ Clear(t) = t]_vars

\* clear has emptied a state that held seed points: a seed dot was pressed
\* (only a press on an existing dot sets drag_i, and clear keeps it) and the
\* growth state is the initial one
C17_Witness ==
    /\ drag_i # 0
    /\ InitialGrowthState(State)

\* the tags of the generations in the redo buffer
RedoTags == {redo[j][2] : j \in 1..Len(redo)}

\* C18: in CanvasManager, after any sequence of seed edits, grows, undos, redos
\* and visibility toggles, every canvas item that carries the tag of a
\* generation in the redo buffer is hidden.
C18_UndoneStayHidden ==
    \A i \in canvas : i[1] \in RedoTags => i[3] = "hidden"

\* the tags of the active generations
ActiveTags == {tags[j] : j \in 1..Len(tags)}

\* C19: in every reachable state of CanvasManager the hidden-tag set undone is
\* the set of the tags of the generations in the redo buffer; so no tag of an
\* active generation is in undone, and every canvas item of an active
\* generation is shown when the toggle of its kind is on.
C19_UndoneIsRedoTags ==
    /\ undone = RedoTags
    /\ ActiveTags \cap undone = {}
    /\ \A i \in canvas : (i[1] \in ActiveTags /\ vis[i[2]]) => i[3] = "normal"

\* the edges that occur exactly once among the 'tri' lines
OnceEdges ==
    {k \in {line_key(tri_lines[i]) : i \in 1..Len(tri_lines)} :
        edge_cnt(line_keys(tri_lines), k) = 1}

EdgeVertices(B) == {e[1] : e \in B} \cup {e[2] : e \in B}

RECURSIVE Connected(_, _)
Connected(B, S) ==
    LET T == S \cup {e[2] : e \in {f \in B : f[1] \in S}}
               \cup {e[1] : e \in {f \in B : f[2] \in S}}
    IN  IF T = S THEN S ELSE Connected(B, T)

\* B is one simple cycle of at least 3 edges
SimpleCycle(B) ==
    /\ Cardinality(B) >= 3
    /\ \A e \in B : e[1] # e[2]
    /\ \A v \in EdgeVertices(B) :
          Cardinality({e \in B : e[1] = v \/ e[2] = v}) = 2
    /\ \E v \in EdgeVertices(B) : Connected(B, {v}) = EdgeVertices(B)

\* C20: when the edges that occur exactly once form one simple cycle of k >= 3
\* edges, update_hull draws exactly one loop, of k+1 vertices with first ==
\* last, whose k steps are exactly those k edges, each once, and none of them
\* an edge that occurs twice, in whatever order the lines are enumerated.
C20_HullWalk ==
    LET B == OnceEdges
    IN  SimpleCycle(B) =>
            /\ Len(hull) = 1
            /\ Len(hull[1]) = Cardinality(B) + 1
            /\ hull[1][1] = hull[1][Len(hull[1])]
            /\ {hull_key(hull[1][i], hull[1][i + 1]) : i \in 1..(Len(hull[1]) - 1)}
                  = B
            /\ \A i \in 1..(Len(hull[1]) - 1) :
                  edge_cnt(line_keys(tri_lines),
                           hull_key(hull[1][i], hull[1][i + 1])) # 2

\* two triangles that share an edge are on the canvas: 4 edges occur once, the
\* shared edge twice, and the loop drawn has 5 vertices
C20_Witness ==
    /\ Len(tri_lines) = 6
    /\ Cardinality(OnceEdges) = 4
    /\ SimpleCycle(OnceEdges)
    /\ Len(hull) = 1
    /\ Len(hull[1]) = 5

\* C28: in CanvasManager the two parent vertices of every face in triangles_3d
\* have the same height, p3d.z = q3d.z, after any sequence of grows in any
\* modes and for any seed spacing.
C28_ParentsShareHeight ==
    \A i \in 1..Len(triangles_3d) : triangles_3d[i][1][3] = triangles_3d[i][2][3]

\* sqrt(3) times the length s*sqrt(r), again as <<s', r'>> with r' squarefree
TimesSqrt3(L) ==
    IF L[2] % 3 = 0 THEN <<3 * L[1], L[2] \div 3>> ELSE <<L[1], 3 * L[2]>>

\* the apex height the slanted extrusion at 60 degrees gives the face f when
\* the apex lies on the given side of the base
SlantedHeight(f, side) ==
    LET L == TimesSqrt3(hypot(<<f[3][1] - f[1][1], f[3][2] - f[1][2]>>))
    IN  HAdd(f[1][3], L[2], IF side = 1 THEN -L[1] ELSE L[1])

\* C30: every face (p3d, q3d, c3d) recorded by _make_next has its apex at
\* c3d.z = p3d.z - L*sqrt(3) when it was built on the LEFT (sign +1) and at
\* c3d.z = p3d.z + L*sqrt(3) when it was built on the RIGHT (sign -1), L being
\* the 2D distance from p to c.
C30_SlantedExtrusion ==
    \A i \in 1..Len(triangles_3d) :
        LET f == triangles_3d[i]
        IN  \A side \in {1, -1} :
                <<f[3][1], f[3][2]>>
                    = third_vertex(<<f[1][1], f[1][2]>>, <<f[2][1], f[2][2]>>, side)
                  => f[3][3] = SlantedHeight(f, side)

\* C26: every segment of every loop update_hull outputs, the closing segment
\* back to the first vertex included, is an edge that occurs exactly once
\* among the 'tri' lines; no edge that occurs twice and no pair of vertices
\* that is not an edge is drawn, for every set of lines and enumeration order.
C26_SegmentsAreBoundary ==
    \A l \in 1..Len(hull) :
        \A i \in 1..(Len(hull[l]) - 1) :
            hull_key(hull[l][i], hull[l][i + 1]) \in OnceEdges

PointSet(s) == {s[i] : i \in 1..Len(s)}

\* p lies on the segment from a to b, strictly between them
OnSegment(p, a, b) ==
    /\ cross(a, b, p) = 0
    /\ (p[1] - a[1]) * (b[1] - a[1]) + (p[2] - a[2]) * (b[2] - a[2]) > 0
    /\ (p[1] - b[1]) * (a[1] - b[1]) + (p[2] - b[2]) * (a[2] - b[2]) > 0

\* p lies in the triangle a, b, c, its edges included
InTriangle(p, a, b, c) ==
    /\ cross(a, b, c) # 0
    /\ \/ cross(a, b, p) >= 0 /\ cross(b, c, p) >= 0 /\ cross(c, a, p) >= 0
       \/ cross(a, b, p) <= 0 /\ cross(b, c, p) <= 0 /\ cross(c, a, p) <= 0

\* the extreme points of S: those not in the convex hull of the others
Extreme(S) ==
    {p \in S :
        /\ ~ \E a, b \in S \ {p} : OnSegment(p, a, b)
        /\ ~ \E a, b, c \in S \ {p} : InTriangle(p, a, b, c)}

\* the turn at every vertex of the closed polygon r
Turns(r) ==
    {cross(r[i], r[(i % Len(r)) + 1], r[((i + 1) % Len(r)) + 1]) : i \in 1..Len(r)}

\* C21: convex_hull on at least 3 distinct points with integer coordinates
\* returns exactly the extreme points of the set, each once, in one winding
\* order: no point inside the hull and no point that lies on a hull edge
\* between two others is in the result.
C21_HullIsExtremePoints ==
    Len(ch_call.points) >= 3 =>
        /\ PointSet(ch_call.ret) = Extreme(PointSet(ch_call.points))
        /\ Len(ch_call.ret) = Cardinality(Extreme(PointSet(ch_call.points)))
        /\ \/ \A t \in Turns(ch_call.ret) : t > 0
           \/ \A t \in Turns(ch_call.ret) : t < 0

\* the squared length of the step <<a, b>> = a + b*w, and the turn from the
\* step u to the step v (sqrt(3)/2 times this number is the cross product)
Norm(d) == d[1] * d[1] + d[1] * d[2] + d[2] * d[2]
Turn(u, v) == u[1] * v[2] - u[2] * v[1]
Minus(p, q) == <<p[1] - q[1], p[2] - q[2]>>

\* C22: for p # q and sign +1 or -1, c = third_vertex(p, q, sign) is the apex
\* of an equilateral triangle on pq: |pq| = |qc| = |cp|, the turn p -> q -> c
\* is positive for sign +1 and negative for sign -1; the result is a function
\* of the three arguments alone, and the call changes no state.
C22_Equilateral ==
    /\ [](tv_call.p # tv_call.q =>
            /\ tv_call.ret = third_vertex(tv_call.p, tv_call.q, tv_call.side)
            /\ Norm(Minus(tv_call.q, tv_call.p)) = Norm(Minus(tv_call.ret, tv_call.q))
            /\ Norm(Minus(tv_call.q, tv_call.p)) = Norm(Minus(tv_call.p, tv_call.ret))
            /\ tv_call.side = 1 =>
                  Turn(Minus(tv_call.q, tv_call.p), Minus(tv_call.ret, tv_call.q)) > 0
            /\ tv_call.side = -1 =>
                  Turn(Minus(tv_call.q, tv_call.p), Minus(tv_call.ret, tv_call.q)) < 0)
    /\ [][tv_call' # tv_call => UNCHANGED <<app_vars, ch_call>>]_vars

\* the right apex on the base from 0 to 2: c = 2 - 2w = (1, -sqrt(3))
C22_Witness ==
    /\ tv_call.p = <<0, 0>>
    /\ tv_call.q = <<2, 0>>
    /\ tv_call.side = -1
    /\ tv_call.ret = <<2, -2>>


\* C24: update_hull counts all three edges of every triangle that growth
\* produced.  After a single grow from a seed of two distinct points p, q with
\* the child c, the edges p-q, q-c and c-p each have the count 1; and the
\* three edges of every face of triangles_3d are among the counted edges.
EdgeCount(p, q) == edge_cnt(item_keys(tri_items), hull_key(pixel(p), pixel(q)))

FaceEdgeCount(f, i, j) == EdgeCount(<<f[i][1], f[i][2]>>, <<f[j][1], f[j][2]>>)

SingleGrow ==
    /\ app = "main" /\ phase = "grows"
    /\ Len(rows) = 2 /\ Len(rows[1]) = 2 /\ Len(rows[2]) = 1
    /\ rows[1][1] # rows[1][2]

C25_OnlyActiveEdges ==
    app = "main" => \A i \in 1..Len(tri_items) : tri_items[i][1] \in ActiveTags

\* C23: an OBJ export of the modular app raises no error, for an empty face
\* list too, and writes a file that lists every distinct vertex of
\* triangles_3d exactly once and then one face per face of triangles_3d, in
\* order, whose three 1-based indices resolve to that face's three vertices.
ObjFileOf(file, tris) ==
    /\ \A i, j \in 1..Len(file.v) : file.v[i] = file.v[j] => i = j
    /\ {file.v[i] : i \in 1..Len(file.v)}
         = UNION {{tris[i][1], tris[i][2], tris[i][3]} : i \in 1..Len(tris)}
    /\ Len(file.f) = Len(tris)
    /\ \A i \in 1..Len(tris) : \A k \in 1..3 :
           /\ file.f[i][k] \in 1..Len(file.v)
           /\ file.v[file.f[i][k]] = tris[i][k]

C23_ObjExport ==
    [][export_dialog_as("obj", TRUE) =>
          /\ ~exported'.raised
          /\ exported'.file # None
          /\ ObjFileOf(exported'.file[1], triangles_3d)]_vars

\* C27: in TriGrowthApp the primitives of an undone generation are hidden
\* after undo_layer and stay hidden, whatever the toggles are set to, until
\* the generation is redone.
C27_UndoneStayHidden ==
    app = "GUI" => \A i \in canvas : i[1] \in RedoTags => i[3] = "hidden"

\* C29: in TriGrowthGUI every face recorded when generation g is grown has its
\* two parent vertices at the height recorded for generation g-1 and its child
\* at the height recorded in layers_3d for generation g; so a 2D point that is
\* the child of one face and a parent of a face of the next generation has the
\* same 3D coordinates in both.  layers_3d[g] is the row recorded when the
\* g-th generation was grown; the seed row is not recorded.
RecordedAt(g) == {layers_3d[g][i][3] : i \in 1..Len(layers_3d[g])}

\* the faces whose child belongs to the row recorded for generation g
ChildIn(f, g) == \E i \in 1..Len(layers_3d[g]) : layers_3d[g][i] = f[3]

C29_FixedStepHeights ==
    app = "gui" =>
        /\ \A k \in 1..Len(triangles_3d) : \A g \in 1..Len(layers_3d) :
               (g > 1 /\ ChildIn(triangles_3d[k], g)) =>
                   /\ triangles_3d[k][1][3] \in RecordedAt(g - 1)
                   /\ triangles_3d[k][2][3] \in RecordedAt(g - 1)
        /\ \A k \in 1..Len(triangles_3d) :
               \E g \in 1..Len(layers_3d) : ChildIn(triangles_3d[k], g)
        /\ \A j, k \in 1..Len(triangles_3d) : \A n \in 1..2 :
               (triangles_3d[j][3][1] = triangles_3d[k][n][1]
                  /\ triangles_3d[j][3][2] = triangles_3d[k][n][2])
               => triangles_3d[j][3] = triangles_3d[k][n]

\* C37: in every reachable state the active tags are ly0, ly1, .., ly(n-1) in
\* this order, and the tags of the redo buffer, read from its top down, are
\* ly(n), ly(n+1), ..: a redo pushes a generation at the index its tag names.
C37_TagSequence ==
    /\ \A i \in 1..Len(tags) : tags[i] = Tag(i - 1)
    /\ \A j \in 1..Len(redo) : redo[Len(redo) + 1 - j][2] = Tag(Len(tags) + j - 1)

\* two generations grown, both undone: the buffer holds ly1 under ly0
C37_Witness ==
    /\ tags = <<>>
    /\ Len(redo) = 2
    /\ redo[2][2] = Tag(0)
    /\ redo[1][2] = Tag(1)

\* C31: redo does not depend on the growth-mode selector.  In the state an
\* undo leaves behind, redo_layer gives the same rows, tags, layers_3d,
\* triangles_3d and branch snapshots whichever of LEFT, RIGHT and BOTH is
\* selected when it is invoked.
RedoWith(t, side) ==
    IF app = "gui" THEN TriGrowthGUI_redo_layer(t, side) ELSE cm_redo_layer(t, side)

SameRedo(x, y) ==
    /\ x.rows = y.rows
    /\ x.tags = y.tags
    /\ x.layers_3d = y.layers_3d
    /\ x.triangles_3d = y.triangles_3d
    /\ x.left_branch = y.left_branch
    /\ x.right_branch = y.right_branch
    /\ x.left3d = y.left3d
    /\ x.right3d = y.right3d

C31_RedoIgnoresSelector ==
    [][(undo_layer \/ gui_undo_layer) =>
          \A t \in {State'} : \A a, b \in Sides :
              SameRedo(RedoWith(t, a), RedoWith(t, b))]_vars

\* C32: undo changes the mesh only by removing the faces of the undone
\* generation.  When a grow or a redo has pushed a generation, undoing that
\* generation gives back the triangles_3d from before it was pushed: the
\* faces it appended are gone and every face of an earlier generation is
\* still there.  The seed rows taken are those without a repeated point
\* next to itself: on these the heights that coincide in the first
\* violations are sums of the same edge lengths and coincide in the
\* program's floating point too.
SeedSpread == \A i \in 1..(Len(rows[1]) - 1) : rows[1][i] # rows[1][i + 1]

Flat(row3d) == [i \in 1..Len(row3d) |-> <<row3d[i][1], row3d[i][2]>>]

WouldBuild == rows # <<>> /\ (Len(Last(rows)) >= 2 \/ redo # <<>>)

C33_ParentsAligned ==
    (app = "main" /\ WouldBuild) =>
        /\ layers_3d # <<>> => Flat(Last(layers_3d)) = Last(rows)
        /\ left_branch # None =>
              /\ Flat(left3d[1]) = left_branch[1]
              /\ Flat(right3d[1]) = right_branch[1]

\* C34: the branch snapshots track the top generation.  In CanvasManager and
\* in GUI.py, in every state in which left_branch is not None, the top row
\* is the left snapshot followed by the right snapshot.
C34_BranchesTrackTop ==
    (app \in {"main", "GUI"} /\ left_branch # None) =>
        /\ rows # <<>>
        /\ right_branch # None
        /\ Last(rows) = left_branch[1] \o right_branch[1]

\* C35: the rendered triangle edges survive an undo/redo round trip.  When a
\* grow has pushed a generation, undo_layer followed at once by redo_layer,
\* with the selector as it was at the grow, leaves every triangle edge
\* rendered as many times as before the undo, and update_hull computes the
\* same loops as before the undo.
RoundTripItems(t, items, side) ==
    tri_redo_layer(items, cm_undo_layer(t), side)

SameEdges(a, b) ==
    \A i \in 1..Len(b) : edge_cnt(item_keys(a), item_key(b[i]))
                           = edge_cnt(item_keys(b), item_key(b[i]))

C35_RoundTripKeepsEdges ==
    [][(add_layer /\ Len(rows') = Len(rows) + 1
          /\ Len(layers_3d') = Len(rows')) =>
          \A t \in {State'} : \A items \in {tri_items'} :
              /\ SameEdges(items, RoundTripItems(t, items, side_var))
              /\ hull_of_keys(item_keys(RoundTripItems(t, items, side_var)))
                   = hull_of_keys(item_keys(items))]_vars

\* C36: the primitives of a discarded timeline stay hidden.  A grow with
\* generations waiting in the redo buffer discards them; their primitives
\* carry the tags the buffer held and stay on the canvas.  After such a grow,
\* an undo and a redo of the new generation leave no primitive with one of
\* those tags shown.  itemconfigure addresses the items by tag and by kind,
\* so after a callback the discarded items of a tag and kind are shown
\* exactly when the canvas has a shown item of that tag and kind.
UndoWith(t) ==
    IF app = "gui" THEN TriGrowthGUI_undo_layer(t) ELSE cm_undo_layer(t)

CanvasRedone(c, t, u, side) ==
    IF app = "gui" THEN TriGrowthGUI_cv_redo_layer(c, t, u, vis)
    ELSE cv_redo_layer(c, t, u, vis)

UndoRedoCanvas(c, t, side) ==
    CanvasRedone(cv_undo_layer(c, t, UndoWith(t), vis), UndoWith(t),
                 RedoWith(UndoWith(t), side), side)

C36_DiscardedStayHidden ==
    [][((add_layer \/ gui_add_layer) /\ redo # <<>> /\ redo' = <<>>) =>
          \A t \in {State'} : \A c \in {canvas'} :
              \A i \in UndoRedoCanvas(c, t, side_var) :
                  i[1] \in RedoTags => i[3] = "hidden"]_vars

\* C38: whenever at least 3 edges occur exactly once among the 'tri' lines,
\* every such edge is a segment of exactly one loop update_hull outputs, and
\* there once: none is dropped and none is drawn twice, for every set of
\* lines and enumeration order, open chains of boundary edges included.
SegmentsOn(e) ==
    {<<l, i>> \in (1..Len(hull)) \X (1..(MaxLines + 1)) :
        i < Len(hull[l]) /\ hull_key(hull[l][i], hull[l][i + 1]) = e}

C38_BoundaryCovered ==
    Cardinality(OnceEdges) >= 3 =>
        \A e \in OnceEdges : Cardinality(SegmentsOn(e)) = 1

\* ------------------------------- update_hull: the iterations of the walk
\* The inner 'while True' loop (lines 444-455) with its iterations counted.
\* A walk is [n |-> iterations, visited |-> the visited set]; the count stops
\* at WalkCap, above every bound claimed for it, so a loop that does not end
\* shows as a count of more than WalkCap.
MaxWalk == 5   \* 'tri' lines on the canvas when the iterations are counted
WalkCap == 3 * MaxWalk + 1

\* mutant: an edge taken is not added to visited
Mut_visit_forgets(visited, curr, n) == visited

\* line 450: visited.add(key), key = tuple(sorted((curr, n)))
visit(visited, curr, n) == visited \cup {hull_key(curr, n)}

RECURSIVE walk_iters(_, _, _, _, _)
walk_iters_next(boundary, visited, start, curr, n, nxt) ==
    IF nxt = None THEN [n |-> n + 1, visited |-> visited]
    ELSE IF nxt[1] = start
         THEN [n |-> n + 1, visited |-> visit(visited, curr, nxt[1])]
         ELSE walk_iters(boundary, visit(visited, curr, nxt[1]), start, nxt[1], n + 1)

walk_iters_pick(boundary, visited, start, curr, n, nbrs) ==
    walk_iters_next(boundary, visited, start, curr, n,
                    first_unvisited(curr, nbrs, unvisited(curr, nbrs, visited)))

walk_iters(boundary, visited, start, curr, n) ==
    IF n > WalkCap THEN [n |-> n, visited |-> visited]
    ELSE walk_iters_pick(boundary, visited, start, curr, n,
                         adj(boundary, curr, Len(boundary)))

\* lines 437-455: the loop over the start vertices; the result is
\* [n |-> iterations of all walks, walks |-> walks begun, visited |-> ...]
RECURSIVE iters_starts(_, _, _, _)
iters_done(boundary, starts, i, r, w) ==
    iters_starts(boundary, starts, i + 1,
                 [n |-> r.n + w.n, walks |-> r.walks + 1, visited |-> w.visited])

iters_from(boundary, starts, i, r, nbrs) ==
    IF unvisited(starts[i], nbrs, r.visited) = {}
    THEN iters_starts(boundary, starts, i + 1, r)
    ELSE iters_done(boundary, starts, i, r,
                    walk_iters(boundary, r.visited, starts[i], starts[i], 0))

iters_starts(boundary, starts, i, r) ==
    IF i > Len(starts) THEN r
    ELSE iters_from(boundary, starts, i, r, adj(boundary, starts[i], Len(boundary)))

hull_iters(boundary) ==
    IF Len(boundary) < 3 THEN [n |-> 0, walks |-> 0, visited |-> {}]
    ELSE iters_starts(boundary, adj_keys(boundary, Len(boundary)), 1,
                      [n |-> 0, walks |-> 0, visited |-> {}])

update_hull_iters(lines) ==
    hull_iters(boundary_of(line_keys(lines),
                           edge_keys(line_keys(lines), Len(lines))))

\* the 'tri' lines between four points of the canvas, in half pixels: every
\* graph on the four points is a set of them
WalkPoints == {<<0, 0>>, <<20, 0>>, <<10, 17>>, <<30, 17>>}

WalkLines ==
    {<<e[1][1], e[1][2], e[2][1], e[2][2]>> :
        e \in {d \in WalkPoints \X WalkPoints : PointLess(d[1], d[2])}}

\* a 'tri' line between two of the points appears on the canvas, a second
\* time too, and update_hull runs
create_edge ==
    /\ app = "main"
    /\ Len(tri_lines) < MaxWalk
    /\ \E l \in WalkLines : tri_lines' = Append(tri_lines, l)
    /\ hull' = update_hull(tri_lines')
    /\ UNCHANGED <<app, rows, tags, redo, undone, left_branch, right_branch, left3d,
                   right3d, seed_locked, layers_3d, triangles_3d, drag_i, side_var,
                   canvas, vis, tri_items, exported, ch_call, tv_call, steps, phase>>

NextWalk == create_edge

SpecWalk == Init /\ [][NextWalk]_vars

\* C39: the boundary walk of update_hull terminates.  Every iteration of the
\* inner loop marks an edge that was not visited or is the last of its walk,
\* so the iterations of all walks together are at most the edges marked plus
\* the walks begun, and at most the number of boundary edges plus the number
\* of their vertices.
C39_WalkTerminates ==
    \A r \in {update_hull_iters(tri_lines)} : \A B \in {OnceEdges} :
        /\ r.n <= Cardinality(r.visited) + r.walks
        /\ r.visited \subseteq B
        /\ r.walks <= Cardinality(EdgeVertices(B))
        /\ r.n <= Cardinality(B) + Cardinality(EdgeVertices(B))

\* a loop is walked and drawn and another walk runs into a dead end: 4
\* boundary edges or more, all visited, in more iterations than edges
C39_Witness ==
    /\ Cardinality(OnceEdges) >= 4
    /\ update_hull_iters(tri_lines).visited = OnceEdges
    /\ update_hull_iters(tri_lines).n > Cardinality(OnceEdges)
    /\ hull # <<>>
====
